---- MODULE Spec2Model ----
(***************************************************************************)
(* Model of the AI-assisted visual regression comparator of the           *)
(* playwright-ai-framework repository:                                     *)
(*   - src/helpers/VisualTestHelper.ts  expectPageToMatchVisuallyAI and    *)
(*     interpretAIJsonResponse                                             *)
(*   - src/ai/LocalLLMService.ts, src/ai/GoogleLLMService.ts  the gateway  *)
(*   - src/ai/LLMUtils.ts  getLLMService, isOllamaRunning, startOllama     *)
(*   - src/pages/BasePage.ts  clickWithRetry, fillWithRetry and            *)
(*     waitForElementToBeStable                                            *)
(*                                                                         *)
(* JavaScript strings are sequences of atoms.  Text that comes from the    *)
(* model backend is a sequence of one-character atoms; a string literal of *)
(* the source is one atom holding the whole literal, so a template string  *)
(* is the concatenation (\o) of its literal chunks and its holes.          *)
(***************************************************************************)
EXTENDS Integers, Sequences, FiniteSets, TLC

VARIABLES
    fs,        \* the filesystem: baseline and actual files per logical name, the two directories
    inv,       \* per invocation of expectPageToMatchVisuallyAI: position and locals
    shots,     \* number of screenshots the browser has taken so far
    itext,     \* interpreter harness: the argument handed to interpretAIJsonResponse
    iform,     \* interpreter harness: how that argument was built
    iresult,   \* interpreter harness: what the call produced
    gw,        \* gateway harness: the last direct call of generateMultimodalResponse
    llm,       \* Config.aiServiceMode, Config.googleApiKey and the module-level
               \* llmServiceInstance of LLMUtils, with the calls of getLLMService
    bp,        \* the call of a BasePage method under way: position, locals, history
    ollama     \* the Ollama server and the call of LLMUtils.startOllama under way

vars == <<fs, inv, shots, itext, iform, iresult, gw, llm, bp, ollama>>

(***************************************************************************)
(* Characters                                                              *)
(***************************************************************************)
Q   == "\""
BS  == "\\"
NL  == "\n"
CR  == "\r"
TAB == "\t"
SP  == " "
\* U+0060, the character of a Markdown code fence, written as a named atom
BT  == "bt"
LBRACE == "{"
RBRACE == "}"

\* /\s/ of the regular expressions and String.prototype.trim, on the alphabet of the model
JsWhitespace == {SP, TAB, NL, CR}

\* whitespace of the JSON grammar
JsonWs == {SP, TAB, NL, CR}

\* U+0000..U+001F may not appear unescaped inside a JSON string
ControlChars == {TAB, NL, CR}

FenceJson == <<BT, BT, BT, "j", "s", "o", "n">>
Fence == <<BT, BT, BT>>
KeyPassed == <<Q, "p", "a", "s", "s", "e", "d", Q>>
KeyReason == <<Q, "r", "e", "a", "s", "o", "n", Q>>
TrueWord == <<"t", "r", "u", "e">>
FalseWord == <<"f", "a", "l", "s", "e">>
NullWord == <<"n", "u", "l", "l">>
\* responseText.substring(0, 100) and responseText.substring(0, 200)
ExcerptParse == 100
ExcerptFields == 200

\* request.temperature || 0.2 and request.maxTokens || 2048 of the on-device backend
LocalDefaultTemperature == 2
LocalMaxTokens == 2048
\* request.temperature ?? 0.2, ?? 0.7 and request.maxTokens ?? 2048, ?? 1000 of the cloud backend
GoogleVisionTemperature == 2
GoogleTextTemperature == 7
GoogleVisionMaxTokens == 2048
GoogleTextMaxTokens == 1000
\* temperature: 0.1 of the visual comparison request
VisualTemperature == 1

Digits == {"0", "1", "2", "3", "4", "5", "6", "7", "8", "9"}

(***************************************************************************)
(* String primitives (0-based indices, as in JavaScript)                   *)
(***************************************************************************)
\* s.startsWith(p, i)
StartsWithAt(s, i, p) ==
    /\ i >= 0
    /\ i + Len(p) <= Len(s)
    /\ SubSeq(s, i + 1, i + Len(p)) = p

\* the text before position i ends with p
EndsWithAt(s, i, p) ==
    /\ i <= Len(s)
    /\ i - Len(p) >= 0
    /\ SubSeq(s, i - Len(p) + 1, i) = p

\* s.indexOf(c): -1 when absent
IndexOf(s, c) ==
    IF \E i \in 1..Len(s) : s[i] = c
    THEN (CHOOSE i \in 1..Len(s) : s[i] = c /\ \A j \in 1..(i - 1) : s[j] # c) - 1
    ELSE -1

\* faulty variant: indexOf where lastIndexOf is meant
LastIndexOfAsFirst(s, c) == IndexOf(s, c)

\* s.lastIndexOf(c): -1 when absent
LastIndexOf(s, c) ==
    IF \E i \in 1..Len(s) : s[i] = c
    THEN (CHOOSE i \in 1..Len(s) : s[i] = c /\ \A j \in (i + 1)..Len(s) : s[j] # c) - 1
    ELSE -1

Min(a, b) == IF a < b THEN a ELSE b

\* the least position of a non-empty set of positions: where a search from the
\* left finds its first match
First(S) == CHOOSE k \in S : \A j \in S : k <= j

\* s.substring(a, b) for 0 <= a <= b; b is clamped to the length
Substring(s, a, b) == SubSeq(s, a + 1, Min(b, Len(s)))

\* s.replace(/c/g, d) for single characters c and d
ReplaceChar(s, c, d) == [i \in 1..Len(s) |-> IF s[i] = c THEN d ELSE s[i]]

\* s.trim()
RECURSIVE TrimStart(_)
TrimStart(s) ==
    IF Len(s) > 0 /\ s[1] \in JsWhitespace THEN TrimStart(Tail(s)) ELSE s

RECURSIVE TrimEnd(_)
TrimEnd(s) ==
    IF Len(s) > 0 /\ s[Len(s)] \in JsWhitespace
    THEN TrimEnd(SubSeq(s, 1, Len(s) - 1))
    ELSE s

Trim(s) == TrimEnd(TrimStart(s))

\* s contains p as a contiguous substring (String.prototype.includes)
Includes(s, p) == \E i \in 0..Len(s) : StartsWithAt(s, i, p)

(***************************************************************************)
(* JSON.parse, on the JSON grammar without \u escapes and without          *)
(* fractions or exponents (the alphabet of the model has neither).         *)
(* A JavaScript value is a record tagged by its typeof in field t.         *)
(***************************************************************************)
Undefined == [t |-> "undefined"]
JsString(s) == [t |-> "string", s |-> s]
JsBoolean(b) == [t |-> "boolean", b |-> b]
\* a number given by its value, and a number parsed from its numeral
JsNumber(d) == [t |-> "number", d |-> d]
JsNumeral(digits) == [t |-> "number", digits |-> digits]
JsNull == [t |-> "null"]
JsObject(m) == [t |-> "object", m |-> m]
JsArray(a) == [t |-> "array", a |-> a]

ParseFail == [ok |-> FALSE]
ParseOk(v, next) == [ok |-> TRUE, v |-> v, next |-> next]

\* positions of the parser are 1-based indices into the sequence
RECURSIVE SkipWs(_, _)
SkipWs(s, i) ==
    IF i <= Len(s) /\ s[i] \in JsonWs THEN SkipWs(s, i + 1) ELSE i

\* the character an escape sequence \c stands for
Unescape(c) ==
    CASE c = Q -> Q
      [] c = BS -> BS
      [] c = "/" -> "/"
      [] c = "n" -> NL
      [] c = "r" -> CR
      [] c = "t" -> TAB
      [] c = "f" -> "\f"
      [] c = "b" -> "backspace"

EscapeChars == {Q, BS, "/", "n", "r", "t", "f", "b"}

\* i is the position after the opening quote; the run of plain characters up
\* to the next quote, backslash or control character is taken in one step
RECURSIVE ParseStringFrom(_, _, _)
ParseStringFrom(s, i, acc) ==
    LET stops == {k \in i..Len(s) : s[k] = Q \/ s[k] = BS \/ s[k] \in ControlChars} IN
    IF stops = {} THEN ParseFail
    ELSE LET k == First(stops)
             acc2 == acc \o SubSeq(s, i, k - 1)
         IN  IF s[k] = Q THEN ParseOk(acc2, k + 1)
             ELSE IF s[k] = BS /\ k + 1 <= Len(s) /\ s[k + 1] \in EscapeChars
                  THEN ParseStringFrom(s, k + 2, Append(acc2, Unescape(s[k + 1])))
                  ELSE ParseFail

RECURSIVE DigitsEnd(_, _)
DigitsEnd(s, i) ==
    IF i <= Len(s) /\ s[i] \in Digits THEN DigitsEnd(s, i + 1) ELSE i

\* -?(0|[1-9][0-9]*)
ParseNumber(s, i) ==
    LET d == IF s[i] = "-" THEN i + 1 ELSE i
        e == DigitsEnd(s, d)
    IN  IF e = d THEN ParseFail
        ELSE IF s[d] = "0" /\ e > d + 1 THEN ParseOk(JsNumeral(SubSeq(s, i, d)), d + 1)
        ELSE ParseOk(JsNumeral(SubSeq(s, i, e - 1)), e)

RECURSIVE ParseValue(_, _), ParseMembers(_, _, _), ParseElements(_, _, _)

ParseValue(s, i0) ==
    LET i == SkipWs(s, i0) IN
    IF i > Len(s) THEN ParseFail
    ELSE IF s[i] = LBRACE
         THEN LET j == SkipWs(s, i + 1) IN
              IF j <= Len(s) /\ s[j] = RBRACE
              THEN ParseOk(JsObject(<<>>), j + 1)
              ELSE ParseMembers(s, j, <<>>)
    ELSE IF s[i] = "["
         THEN LET j == SkipWs(s, i + 1) IN
              IF j <= Len(s) /\ s[j] = "]"
              THEN ParseOk(JsArray(<<>>), j + 1)
              ELSE ParseElements(s, j, <<>>)
    ELSE IF s[i] = Q
         THEN LET r == ParseStringFrom(s, i + 1, <<>>) IN
              IF r.ok THEN ParseOk(JsString(r.v), r.next) ELSE ParseFail
    ELSE IF StartsWithAt(s, i - 1, TrueWord) THEN ParseOk(JsBoolean(TRUE), i + 4)
    ELSE IF StartsWithAt(s, i - 1, FalseWord) THEN ParseOk(JsBoolean(FALSE), i + 5)
    ELSE IF StartsWithAt(s, i - 1, NullWord) THEN ParseOk(JsNull, i + 4)
    ELSE IF s[i] = "-" \/ s[i] \in Digits THEN ParseNumber(s, i)
    ELSE ParseFail

\* i is the position of the first character of a member "key": value
ParseMembers(s, i, acc) ==
    IF i > Len(s) \/ s[i] # Q THEN ParseFail
    ELSE LET k == ParseStringFrom(s, i + 1, <<>>) IN
         IF ~k.ok THEN ParseFail
         ELSE LET c == SkipWs(s, k.next) IN
              IF c > Len(s) \/ s[c] # ":" THEN ParseFail
              ELSE LET val == ParseValue(s, c + 1) IN
                   IF ~val.ok THEN ParseFail
                   ELSE LET e == SkipWs(s, val.next)
                            acc2 == Append(acc, <<k.v, val.v>>)
                        IN  IF e > Len(s) THEN ParseFail
                            ELSE IF s[e] = RBRACE THEN ParseOk(JsObject(acc2), e + 1)
                            ELSE IF s[e] = "," THEN ParseMembers(s, SkipWs(s, e + 1), acc2)
                            ELSE ParseFail

\* i is the position of the first character of an element
ParseElements(s, i, acc) ==
    LET val == ParseValue(s, i) IN
    IF ~val.ok THEN ParseFail
    ELSE LET e == SkipWs(s, val.next)
             acc2 == Append(acc, val.v)
         IN  IF e > Len(s) THEN ParseFail
             ELSE IF s[e] = "]" THEN ParseOk(JsArray(acc2), e + 1)
             ELSE IF s[e] = "," THEN ParseElements(s, SkipWs(s, e + 1), acc2)
             ELSE ParseFail

\* JSON.parse(s): one value, surrounded by optional whitespace, and nothing else
JSONParse(s) ==
    LET r == ParseValue(s, 1) IN
    IF r.ok /\ SkipWs(s, r.next) > Len(s) THEN [ok |-> TRUE, v |-> r.v] ELSE ParseFail

\* obj.key of a parsed value: the last member of that name wins, undefined when absent
GetProperty(v, key) ==
    IF v.t # "object" THEN Undefined
    ELSE LET hits == {i \in 1..Len(v.m) : v.m[i][1] = key} IN
         IF hits = {} THEN Undefined
         ELSE v.m[CHOOSE i \in hits : \A j \in hits : j <= i][2]

(***************************************************************************)
(* interpretAIJsonResponse (VisualTestHelper.ts)                           *)
(***************************************************************************)
\* .replace(/```json\n?/g, ''): every fence opener, with the newline after it, is removed
RECURSIVE RemoveJsonFenceFrom(_, _)
RemoveJsonFenceFrom(s, i) ==
    LET hits == {k \in i..(Len(s) - Len(FenceJson)) : StartsWithAt(s, k, FenceJson)} IN
    IF hits = {} THEN SubSeq(s, i + 1, Len(s))
    ELSE LET k == First(hits)
             j == k + Len(FenceJson)
         IN  SubSeq(s, i + 1, k)
                 \o RemoveJsonFenceFrom(s, IF j < Len(s) /\ s[j + 1] = NL THEN j + 1 ELSE j)

RemoveJsonFences(s) == RemoveJsonFenceFrom(s, 0)

\* .replace(/```$/g, ''): a fence at the very end of the text is removed
RemoveTrailingFence(s) ==
    IF EndsWithAt(s, Len(s), Fence) THEN SubSeq(s, 1, Len(s) - Len(Fence)) ELSE s

\* step 1
StripFences(s) == Trim(RemoveTrailingFence(RemoveJsonFences(s)))

\* faulty variant: the order of the two braces is not looked at
NoDelimitersAnyOrder(firstBrace, lastBrace) == firstBrace = -1 \/ lastBrace = -1

\* step 2: the condition under which no JSON object is isolated
NoDelimiters(firstBrace, lastBrace) ==
    firstBrace = -1 \/ lastBrace = -1 \/ lastBrace < firstBrace

\* faulty variant: carriage returns are left in place
FlattenNewlinesOnly(s) == ReplaceChar(s, NL, SP)

\* step 3
FlattenLineBreaks(s) == ReplaceChar(ReplaceChar(s, NL, SP), CR, SP)

\* the first position at or after i that holds no /\s/ character
RECURSIVE SkipSpaces(_, _)
SkipSpaces(s, i) ==
    IF i < Len(s) /\ s[i + 1] \in JsWhitespace THEN SkipSpaces(s, i + 1) ELSE i

\* the position before i that ends the run of /\s/ characters ending at i
RECURSIVE SkipSpacesBack(_, _)
SkipSpacesBack(s, i) ==
    IF i > 0 /\ s[i] \in JsWhitespace THEN SkipSpacesBack(s, i - 1) ELSE i

\* faulty variant: whitespace is also allowed between the key and its colon
PassedBehindSpacedColon(s, i) ==
    \E w \in {TrueWord, FalseWord} :
        /\ EndsWithAt(s, i, w)
        /\ EndsWithAt(s, SkipSpacesBack(s, SkipSpacesBack(s, i - Len(w)) - 1), KeyPassed)
        /\ SkipSpacesBack(s, i - Len(w)) > 0
        /\ s[SkipSpacesBack(s, i - Len(w))] = ":"

\* (?<="passed":\s*(?:true|false)) at position i
PassedBehind(s, i) ==
    \E w \in {TrueWord, FalseWord} :
        /\ EndsWithAt(s, i, w)
        /\ EndsWithAt(s, SkipSpacesBack(s, i - Len(w)), KeyPassed \o <<":">>)

\* faulty variant: the pattern without its (\s*) group
ReasonAheadNoSpace(s, i) == StartsWithAt(s, i, KeyReason \o <<":">>)

\* (\s*)"reason": at position i
ReasonAhead(s, i) == StartsWithAt(s, SkipSpaces(s, i), KeyReason \o <<":">>)

\* step 4: .replace(/(?<="passed":\s*(?:true|false))(\s*)"reason":/g, ',$1"reason":')
RECURSIVE RepairFrom(_, _)
RepairFrom(s, i) ==
    LET hits == {k \in i..(Len(s) - 1) : PassedBehind(s, k) /\ ReasonAhead(s, k)} IN
    IF hits = {} THEN SubSeq(s, i + 1, Len(s))
    ELSE LET k == First(hits)
             e == SkipSpaces(s, k) + Len(KeyReason) + 1
         IN  SubSeq(s, i + 1, k) \o <<",">> \o SubSeq(s, k + 1, e) \o RepairFrom(s, e)

RepairMissingComma(s) == RepairFrom(s, 0)

\* the message of the Error thrown at line 187, character by character:
\* "Could not find valid JSON object delimiters {} in response."
NoDelimitersMessage ==
    <<"C", "o", "u", "l", "d", SP, "n", "o", "t", SP, "f", "i", "n", "d", SP,
      "v", "a", "l", "i", "d", SP, "J", "S", "O", "N", SP,
      "o", "b", "j", "e", "c", "t", SP,
      "d", "e", "l", "i", "m", "i", "t", "e", "r", "s", SP, LBRACE, RBRACE, SP,
      "i", "n", SP, "r", "e", "s", "p", "o", "n", "s", "e", ".">>

\* the message of the SyntaxError of JSON.parse (its wording is the engine's)
SyntaxErrorMessage == <<"SyntaxError of JSON.parse">>

\* the message of the TypeError of calling a method on undefined
TypeErrorMessage == <<"TypeError: Cannot read properties of undefined">>

\* line 222, character by character:
\* `AI response could not be parsed as valid JSON: ${error.message} (Original: ${responseText.substring(0, 100)}...)`
ParseFailureReason(errorMessage, responseText) ==
    <<"A", "I", SP, "r", "e", "s", "p", "o", "n", "s", "e", SP,
      "c", "o", "u", "l", "d", SP, "n", "o", "t", SP, "b", "e", SP,
      "p", "a", "r", "s", "e", "d", SP, "a", "s", SP,
      "v", "a", "l", "i", "d", SP, "J", "S", "O", "N", ":", SP>>
        \o errorMessage
        \o <<SP, "(", "O", "r", "i", "g", "i", "n", "a", "l", ":", SP>>
        \o Substring(responseText, 0, ExcerptParse)
        \o <<".", ".", ".", ")">>

\* faulty variant: the whole reply instead of its first 200 characters
MissingFieldsReasonWhole(responseText) ==
    <<"AI response was valid JSON but lacked expected fields: ">>
        \o responseText \o <<"...">>

\* line 213
MissingFieldsReason(responseText) ==
    <<"AI response was valid JSON but lacked expected fields: ">>
        \o Substring(responseText, 0, ExcerptFields) \o <<"...">>

\* faulty variant: the type of passed is not checked
WellShapedLoose(parsed) ==
    GetProperty(parsed, <<"r", "e", "a", "s", "o", "n">>).t = "string"

\* line 208
WellShaped(parsed) ==
    /\ GetProperty(parsed, <<"p", "a", "s", "s", "e", "d">>).t = "boolean"
    /\ GetProperty(parsed, <<"r", "e", "a", "s", "o", "n">>).t = "string"

\* a returned AnalysisResult; passed is the JavaScript value returned, reason a string
Returned(passed, reason, outcome, parseInput) ==
    [threw |-> FALSE, passed |-> passed, reason |-> reason,
     outcome |-> outcome, parseInput |-> parseInput]

\* an exception that leaves the function
Threw(message) == [threw |-> TRUE, error |-> message]

\* The catch block (lines 215-223) for an error thrown inside the try block.
\* responseText.substring is evaluated outside any try: on a value that is
\* no string it throws a TypeError that leaves the function.
CatchBlock(errorMessage, responseText, outcome, parseInput) ==
    IF responseText.t # "string"
    THEN Threw(TypeErrorMessage)
    ELSE Returned(JsBoolean(FALSE), ParseFailureReason(errorMessage, responseText.s),
                  outcome, parseInput)

\* lines 175-224.  outcome names the return statement taken; parseInput is the
\* string logged at line 202 and handed to JSON.parse (<<>> when not reached).
interpretAIJsonResponse(responseText) ==
    IF responseText.t # "string"
    THEN CatchBlock(TypeErrorMessage, responseText, "caught", <<>>)
    ELSE
    LET stripped == StripFences(responseText.s)
        firstBrace == IndexOf(stripped, LBRACE)
        lastBrace == LastIndexOf(stripped, RBRACE)
    IN  IF NoDelimiters(firstBrace, lastBrace)
        THEN CatchBlock(NoDelimitersMessage, responseText, "caught", <<>>)
        ELSE
        LET isolated == Substring(stripped, firstBrace, lastBrace + 1)
            jsonString == RepairMissingComma(FlattenLineBreaks(isolated))
            parsed == JSONParse(jsonString)
        IN  IF ~parsed.ok
            THEN CatchBlock(SyntaxErrorMessage, responseText, "caught", jsonString)
            ELSE IF WellShaped(parsed.v)
                 THEN Returned(GetProperty(parsed.v, <<"p", "a", "s", "s", "e", "d">>),
                               GetProperty(parsed.v, <<"r", "e", "a", "s", "o", "n">>).s,
                               "parsed", jsonString)
                 ELSE Returned(JsBoolean(FALSE), MissingFieldsReason(responseText.s),
                               "missingFields", jsonString)

(***************************************************************************)
(* The LLM gateway: generateMultimodalResponse of the two backends         *)
(***************************************************************************)
\* What the backend call (axios.post, or the SDK calls of executeGeneration) did:
\* it raised an Error with a message, it raised a value that is no Error, or
\* it completed with a reply.
RaisedError(message) == [kind |-> "raisedError", message |-> message]
RaisedValue(str) == [kind |-> "raisedValue", str |-> str]
Replied(data) == [kind |-> "replied", data |-> data]

\* the body of a 2xx reply of the on-device server: an object that may carry a
\* response field
ReplyBody(response) == [t |-> "object", response |-> response]

\* faulty variant: a fixed text instead of the cause
ErrorTextGeneric(outcome) == <<"Unknown error">>

\* error instanceof Error ? error.message : String(error)
ErrorText(outcome) ==
    IF outcome.kind = "raisedError" THEN outcome.message ELSE outcome.str

\* LLMResponse of a failure: {text: "", success: false, error}
FailureResponse(error) ==
    [text |-> JsString(<<>>), success |-> FALSE, error |-> JsString(error)]

\* LLMResponse of a success: {text, success: true}
SuccessResponse(text) == [text |-> text, success |-> TRUE, error |-> Undefined]

\* a || b on optional numbers: 0 and undefined are falsy
OrElse(a, b) == IF a.t = "undefined" \/ (a.t = "number" /\ a.d = 0) THEN b ELSE a

\* a ?? b
Coalesce(a, b) == IF a.t \in {"undefined", "null"} THEN b ELSE a

\* request.images && request.images.length > 0
HasImages(request) == request.images.t = "array" /\ Len(request.images.a) > 0

\* LocalLLMService.generateMultimodalResponse, lines 765-781: the payload posted.
\* Temperatures are in tenths.
LocalPayload(request, defaultModel) ==
    [model |-> IF request.model.t = "undefined" THEN defaultModel ELSE request.model,
     temperature |-> OrElse(request.temperature, JsNumber(LocalDefaultTemperature)),
     max_tokens |-> OrElse(request.maxTokens, JsNumber(LocalMaxTokens)),
     stream |-> FALSE,
     images |-> IF HasImages(request) THEN request.images ELSE Undefined]

\* LocalLLMService.generateMultimodalResponse, lines 759-804.  response.data.response
\* is read inside the try block: on a null body it raises a TypeError that the
\* catch block turns into a failure; on a body without the field it is undefined.
LocalGenerateMultimodal(request, outcome) ==
    IF outcome.kind # "replied" THEN FailureResponse(ErrorText(outcome))
    ELSE IF outcome.data.t # "object" THEN FailureResponse(TypeErrorMessage)
    ELSE SuccessResponse(outcome.data.response)

\* GoogleLLMService.generateMultimodalResponse, lines 168-171 (and generateText,
\* lines 92-95, when no image is given): the generation config
GooglePayload(request, configuredModel) ==
    [model |-> IF request.model.t = "undefined" THEN configuredModel ELSE request.model,
     temperature |-> IF HasImages(request)
                     THEN Coalesce(request.temperature, JsNumber(GoogleVisionTemperature))
                     ELSE Coalesce(request.temperature, JsNumber(GoogleTextTemperature)),
     max_tokens |-> IF HasImages(request)
                    THEN Coalesce(request.maxTokens, JsNumber(GoogleVisionMaxTokens))
                    ELSE Coalesce(request.maxTokens, JsNumber(GoogleTextMaxTokens)),
     stream |-> FALSE,
     images |-> IF HasImages(request) THEN request.images ELSE Undefined]

\* GoogleLLMService.executeGeneration, lines 56-80: getGenerativeModel,
\* generateContent and response.text() all run inside the try block
GoogleExecuteGeneration(outcome) ==
    IF outcome.kind # "replied" THEN FailureResponse(ErrorText(outcome))
    ELSE SuccessResponse(outcome.data)

\* generateMultimodalResponse of a backend
GenerateMultimodalResponse(backend, request, outcome) ==
    IF backend = "local"
    THEN LocalGenerateMultimodal(request, outcome)
    ELSE GoogleExecuteGeneration(outcome)

(***************************************************************************)
(* LLMUtils.getLLMService and the constructors of the two services         *)
(***************************************************************************)
\* Config.aiServiceMode is process.env.AI_SERVICE_MODE in lower case, "local"
\* when unset or empty; nothing restricts it to the two modes the code names
AiServiceModes == {"local", "google", "openai"}

\* Config.googleApiKey is process.env.GOOGLE_API_KEY, "" when unset
GoogleApiKeys == {"", "key"}

\* a service object: its class and which construction of the process made it
ServiceInstance(class, id) == [t |-> "object", class |-> class, id |-> id]

\* new GoogleLLMService(): throws when no API key is configured
GoogleLLMServiceConstructor(googleApiKey) ==
    IF googleApiKey = ""
    THEN [threw |-> TRUE,
          error |-> <<"Google API Key (GOOGLE_API_KEY) is not configured in environment variables.">>]
    ELSE [threw |-> FALSE, class |-> "GoogleLLMService"]

\* new LocalLLMService(baseUrl, defaultModel): assigns two fields and logs
LocalLLMServiceConstructor == [threw |-> FALSE, class |-> "LocalLLMService"]

\* faulty variant: the constructor of the cloud service is not guarded
ConfigureServiceUnguarded(aiServiceMode, googleApiKey) ==
    IF aiServiceMode = "google"
    THEN GoogleLLMServiceConstructor(googleApiKey)
    ELSE LocalLLMServiceConstructor

\* the switch of lines 150-171: which constructor ends up making the service
ConfigureService(aiServiceMode, googleApiKey) ==
    IF aiServiceMode = "google"
    THEN LET google == GoogleLLMServiceConstructor(googleApiKey) IN
         IF google.threw THEN LocalLLMServiceConstructor ELSE google
    ELSE LocalLLMServiceConstructor

\* faulty variant: the instance is never reused
ReuseNever(llmServiceInstance) == FALSE

\* line 144: if (llmServiceInstance)
ReuseInstance(llmServiceInstance) == llmServiceInstance.t = "object"

\* the state of LLMUtils and Config before the first call of getLLMService;
\* constructed lists the services made so far, each with the call that made it
\* and the configuration it was made under
LLMUtilsInit(aiServiceMode, googleApiKey) ==
    [aiServiceMode |-> aiServiceMode, googleApiKey |-> googleApiKey,
     llmServiceInstance |-> JsNull, constructed |-> <<>>,
     calls |-> 0, changes |-> 0, returned |-> Undefined, threw |-> FALSE,
     calledUnder |-> <<>>]

\* lines 143-175: the state after one more call; returned is what the call
\* returned, threw tells whether an error left it, calledUnder is the
\* configuration at the time of the call
getLLMService(l) ==
    IF ReuseInstance(l.llmServiceInstance)
    THEN [l EXCEPT !.calls = @ + 1, !.returned = l.llmServiceInstance, !.threw = FALSE,
                   !.calledUnder = <<l.aiServiceMode, l.googleApiKey>>]
    ELSE LET made == ConfigureService(l.aiServiceMode, l.googleApiKey) IN
         IF made.threw
         THEN [l EXCEPT !.calls = @ + 1, !.returned = Undefined, !.threw = TRUE,
                        !.calledUnder = <<l.aiServiceMode, l.googleApiKey>>]
         ELSE LET instance == ServiceInstance(made.class, Len(l.constructed) + 1) IN
              [l EXCEPT !.calls = @ + 1,
                        !.calledUnder = <<l.aiServiceMode, l.googleApiKey>>,
                        !.llmServiceInstance = instance,
                        !.constructed = Append(@, [class |-> made.class,
                                                   call |-> l.calls + 1,
                                                   aiServiceMode |-> l.aiServiceMode,
                                                   googleApiKey |-> l.googleApiKey]),
                        !.returned = instance,
                        !.threw = FALSE]

(***************************************************************************)
(* expectPageToMatchVisuallyAI (VisualTestHelper.ts): state and inputs     *)
(***************************************************************************)
\* logical names of the comparisons the tests make
Names == {"home", "login", "./home"}

\* concurrent invocations the model tracks
NumInv == 2
Invs == 1..NumInv

\* screenshots the browser takes in one run of the model
MaxShots == 2

\* lines 10-14
baselineFolder == <<"<cwd>", "/tests/visual-baselines">>
actualFolder == <<"<cwd>", "/test-results/visual-actuals">>

\* the segments of a baseline name, split at "/"
NameSegments(name) ==
    CASE name = "./home" -> <<".", "home">>
      [] name = "old/../login" -> <<"old", "..", "login">>
      [] OTHER -> <<name>>

\* path.join normalises what it joins: a "." segment is dropped and a ".."
\* segment takes away the segment before it (the folders are absolute, so there
\* is always one).  The last segment of the name carries ".png" and is never
\* "." or "..".
RECURSIVE NormalizeOnto(_, _)
NormalizeOnto(done, segments) ==
    IF Len(segments) = 1 THEN done \o <<"/", segments[1], ".png">>
    ELSE IF segments[1] = "." THEN NormalizeOnto(done, Tail(segments))
    ELSE IF segments[1] = ".."
         THEN NormalizeOnto(SubSeq(done, 1, Len(done) - 2), Tail(segments))
    ELSE NormalizeOnto(done \o <<"/", segments[1]>>, Tail(segments))

\* faulty variant: the name is appended as it is written
PathJoinLiteral(folder, name) == folder \o <<"/", name, ".png">>

\* path.join(folder, `${baselineName}.png`)
PathJoin(folder, name) == NormalizeOnto(folder, NameSegments(name))

\* lines 59-60
BaselinePath(name) == PathJoin(baselineFolder, name)

\* faulty variant: one actual file for every name
ActualPathShared(name) == PathJoin(actualFolder, "actual")

ActualPath(name) == PathJoin(actualFolder, name)

Paths == {BaselinePath(n) : n \in Names} \cup {ActualPath(n) : n \in Names}

\* the content of a file is the number of the screenshot it holds; NoFile: no such file
NoFile == 0

\* options.updateBaselines and options.mask as the caller may give them
UpdateOptions == {Undefined, JsBoolean(FALSE), JsBoolean(TRUE)}
MaskOptions == {Undefined, JsArray(<<>>), JsArray(<<".clock">>), JsArray(<<".clock", ".ad">>)}

\* truthiness of an optional boolean
Truthy(v) == v.t = "boolean" /\ v.b

\* v === true and v === false
IsTrue(v) == v.t = "boolean" /\ v.b
IsFalse(v) == v.t = "boolean" /\ ~v.b

\* how a filesystem or browser call may end
FsOutcomes == {"ok", "fail"}
MkdirOutcomes == {"ok", "EEXIST", "EACCES"}

\* messages of the errors the backend call may raise
TransportErrors == {<<"connect ECONNREFUSED 127.0.0.1:11434">>,
                    <<"Request failed with status code 500">>}

NoResult == [kind |-> "none"]
Verdict(passed, reason, name) ==
    [kind |-> "verdict", passed |-> passed, reason |-> reason,
     baselinePath |-> BaselinePath(name), actualPath |-> ActualPath(name)]
ThrownError(error) == [kind |-> "thrown", error |-> error]

NoRequest == [t |-> "undefined"]

\* Buffer.toString("base64") of a file content
Base64(content) == <<"base64", content>>

\* lines 28-31: the service of the visual comparison, made when the module is
\* loaded: new LocalLLMService(Config.ollamaBaseUrl, Config.ollamaDefaultModel)
llmService == LocalLLMServiceConstructor

\* steps is the history of the invocation: the calls it has made so far, in
\* order; service is the class of the object whose generateMultimodalResponse
\* it called
IdleInv ==
    [pc |-> "idle", name |-> "home", update |-> Undefined, mask |-> Undefined,
     screenshotOptions |-> Undefined, capture |-> NoFile, actualBuffer |-> NoFile,
     baselineAtStart |-> NoFile, baselineExists |-> FALSE, branch |-> "none",
     request |-> NoRequest, response |-> Undefined,
     llmCalls |-> 0, interpretCalls |-> 0, result |-> NoResult,
     steps |-> <<>>, service |-> "none"]

\* faulty variant: an empty list of selectors is handed on as an empty mask
ScreenshotOptionsEmptyMask(name, mask) ==
    [path |-> ActualPath(name), fullPage |-> TRUE,
     mask |-> IF mask.t = "array"
              THEN JsArray([k \in 1..Len(mask.a) |-> <<"locator", mask.a[k]>>])
              ELSE Undefined]

\* lines 65-71: the options handed to page.screenshot
ScreenshotOptions(name, mask) ==
    [path |-> ActualPath(name), fullPage |-> TRUE,
     mask |-> IF mask.t = "array" /\ Len(mask.a) > 0
              THEN JsArray([k \in 1..Len(mask.a) |-> <<"locator", mask.a[k]>>])
              ELSE Undefined]

\* faulty variants: the update request is ignored; the baseline is always written
CreateOnly(update, baselineExists) == ~baselineExists
CreateAlways(update, baselineExists) == TRUE

\* line 88: the baseline is created or updated instead of compared
CreateOrUpdate(update, baselineExists) == Truthy(update) \/ ~baselineExists

\* line 93
BaselineVerdict(name) == Verdict(JsBoolean(TRUE), <<"Baseline created/updated.">>, name)

\* faulty variants: source and destination swapped; nothing copied
CopyFileSwapped(files, src, dst) == [files EXCEPT ![src] = files[dst]]
CopyFileNothing(files, src, dst) == files

\* line 89: fs.copyFile(src, dst) on the files
CopyFile(files, src, dst) == [files EXCEPT ![dst] = files[src]]

\* faulty variant: the two images change places
VisualRequestSwapped(baselineBase64, actualBase64) ==
    [model |-> JsString(<<"llava:latest">>),
     images |-> JsArray(<<actualBase64, baselineBase64>>),
     temperature |-> JsNumber(VisualTemperature),
     maxTokens |-> Undefined]

\* lines 130-137; the visual model is Config.ollamaVisualModel || "llava:latest"
VisualRequest(baselineBase64, actualBase64) ==
    [model |-> JsString(<<"llava:latest">>),
     images |-> JsArray(<<baselineBase64, actualBase64>>),
     temperature |-> JsNumber(VisualTemperature),
     maxTokens |-> Undefined]

\* faulty variant: the cause is left out of the reason
GatewayFailureVerdictGeneric(name, response) ==
    Verdict(JsBoolean(FALSE), <<"LLM service error during comparison for ", name>>, name)

\* lines 142-151: the verdict of a gateway failure
GatewayFailureVerdict(name, response) ==
    Verdict(JsBoolean(FALSE),
            <<"LLM service error during comparison for ", name, ": ">>
                \o (IF response.error.t = "string" THEN response.error.s ELSE <<"undefined">>),
            name)

\* lines 142-159: what the invocation does with the reply of the gateway;
\* interpreted tells whether interpretAIJsonResponse was run
AfterGateway(name, response) ==
    IF ~response.success
    THEN [interpreted |-> FALSE, result |-> GatewayFailureVerdict(name, response)]
    ELSE LET analysisResult == interpretAIJsonResponse(response.text) IN
         [interpreted |-> TRUE,
          result |-> IF analysisResult.threw
                     THEN ThrownError(analysisResult.error)
                     ELSE Verdict(analysisResult.passed, analysisResult.reason, name)]

(***************************************************************************)
(* BasePage: clickWithRetry, fillWithRetry and waitForElementToBeStable,   *)
(* one action per stretch of code between two awaits                       *)
(***************************************************************************)
\* no call of the three methods is under way
BasePageIdle == [fn |-> "none", pc |-> "idle"]

RetryMethods == {"clickWithRetry", "fillWithRetry"}

\* lines 491-492 and 562-563: the defaults of options?.maxRetries || 3 and
\* options?.retryDelay || 1000
DefaultMaxRetries == 3
DefaultRetryDelay == 1000

\* the largest maxRetries a caller of the model gives
MaxRetriesGiven == 4

\* options.maxRetries and options.retryDelay as a caller may give them
MaxRetriesOptions == {Undefined} \cup {JsNumber(n) : n \in (-1)..MaxRetriesGiven}
RetryDelayOptions == {Undefined, JsNumber(0), JsNumber(250)}

\* what one attempt (loc.waitFor, then loc.click or loc.fill) may do: succeed,
\* reject with an Error of either call, or reject with a value that is no Error
AttemptOutcomes == {"ok", "waitFor: Timeout exceeded", "action: Timeout exceeded", "non-Error"}

\* lines 511 and 582: error instanceof Error ? error : new Error(String(error)),
\* for the rejection of attempt number n
AttemptError(n, outcome) ==
    [t |-> "Error", from |-> "attempt", n |-> n,
     message |-> IF outcome = "non-Error" THEN "String(error)" ELSE outcome]

\* the rejection of page.waitForTimeout when the page is closed while it waits
WaitForTimeoutError ==
    [t |-> "Error", from |-> "waitForTimeout", n |-> 0, message |-> "Target closed"]

\* faulty variant: one more pass than maxRetries
LoopTestInclusive(b) ==
    IF b.attempt <= b.maxRetries
    THEN [b EXCEPT !.pc = "attempt"]
    ELSE [b EXCEPT !.pc = "thrown", !.thrown = b.lastError]

\* lines 496 and 524-526 (567 and 595-597): while (attempt < maxRetries), and
\* throw lastError once the loop is left
LoopTest(b) ==
    IF b.attempt < b.maxRetries
    THEN [b EXCEPT !.pc = "attempt"]
    ELSE [b EXCEPT !.pc = "thrown", !.thrown = b.lastError]

\* lines 491-496 (562-567): a caller calls clickWithRetry or fillWithRetry; the
\* method runs up to its first await
RetryCall ==
    /\ bp.fn = "none"
    /\ \E fn \in RetryMethods, maxRetries \in MaxRetriesOptions,
          retryDelay \in RetryDelayOptions :
           bp' = LoopTest([fn |-> fn, pc |-> "start",
                           maxRetriesOption |-> maxRetries,
                           retryDelayOption |-> retryDelay,
                           maxRetries |-> OrElse(maxRetries, JsNumber(DefaultMaxRetries)).d,
                           retryDelay |-> OrElse(retryDelay, JsNumber(DefaultRetryDelay)).d,
                           attempt |-> 0, lastError |-> Undefined,
                           log |-> <<>>, thrown |-> Undefined])
    /\ UNCHANGED <<fs, inv, shots, itext, iform, iresult, gw, llm, ollama>>

\* lines 514-520 (585-591) and the loop test that follows when no wait is made
AfterFailedAttempt(b) == IF b.attempt < b.maxRetries THEN [b EXCEPT !.pc = "delay"] ELSE LoopTest(b)

\* lines 497-513 (568-584): the awaits of the attempt settle; on success the
\* method returns, on failure the catch block records the error and counts
AttemptSettles ==
    /\ bp.fn \in RetryMethods
    /\ bp.pc = "attempt"
    /\ \E outcome \in AttemptOutcomes :
           IF outcome = "ok"
           THEN bp' = [bp EXCEPT !.pc = "returned",
                                 !.log = Append(@, [e |-> "attempt", n |-> bp.attempt + 1,
                                                    outcome |-> "ok"])]
           ELSE bp' = AfterFailedAttempt(
                          [bp EXCEPT !.lastError = AttemptError(bp.attempt + 1, outcome),
                                     !.attempt = @ + 1,
                                     !.log = Append(@, [e |-> "attempt", n |-> bp.attempt + 1,
                                                        outcome |-> "failed"])])
    /\ UNCHANGED <<fs, inv, shots, itext, iform, iresult, gw, llm, ollama>>

\* lines 519 (590): page.waitForTimeout(retryDelay) settles; its rejection
\* leaves the catch block and the method
DelaySettles ==
    /\ bp.fn \in RetryMethods
    /\ bp.pc = "delay"
    /\ \E outcome \in {"ok", "rejected"} :
           IF outcome = "ok"
           THEN bp' = LoopTest([bp EXCEPT !.log = Append(@, [e |-> "wait", n |-> bp.retryDelay,
                                                             outcome |-> "ok"])])
           ELSE bp' = [bp EXCEPT !.pc = "thrown", !.thrown = WaitForTimeoutError,
                                 !.log = Append(@, [e |-> "wait", n |-> bp.retryDelay,
                                                    outcome |-> "rejected"])]
    /\ UNCHANGED <<fs, inv, shots, itext, iform, iresult, gw, llm, ollama>>

\* lines 705-707: the defaults of options?.timeout || 10000,
\* options?.checkInterval || 500 and options?.maxPositionDifference || 3
DefaultStableTimeout == 10000
DefaultCheckInterval == 500
DefaultMaxPositionDifference == 3

\* the three options as a caller may give them (milliseconds and pixels)
StableTimeoutOptions == {Undefined, JsNumber(0), JsNumber(-1), JsNumber(1200)}
CheckIntervalOptions == {Undefined, JsNumber(400)}
MaxPositionDifferenceOptions == {Undefined, JsNumber(0), JsNumber(1), JsNumber(-1)}

\* Math.round of a coordinate given in half pixels (halves round up)
MathRound(halves) == (halves + 1) \div 2

Abs(n) == IF n < 0 THEN 0 - n ELSE n

\* the coordinates loc.boundingBox() may report, in half pixels: 0, 2.5, 3.5
\* and 0, 4.5
BoxXs == {0, 5, 7}
BoxYs == {0, 9}

\* what loc.boundingBox() may do: reject, resolve to null, resolve to a box
BoundingBoxOutcomes ==
    {[kind |-> "rejected"], [kind |-> "null"]}
        \cup {[kind |-> "box", x |-> x, y |-> y] : x \in BoxXs, y \in BoxYs}

\* lines 739-754: stableCount++ within the tolerance, stableCount = 0 outside
StableCountAfter(stableCount, within) == IF within THEN stableCount + 1 ELSE 0

\* line 717 and lines 765-766: while (Date.now() - startTime < timeout); when the
\* loop is left the method logs a warning and returns
StableLoopTest(b) ==
    IF b.elapsed < b.timeout
    THEN [b EXCEPT !.pc = "boundingBox"]
    ELSE [b EXCEPT !.pc = "returned", !.via = "timeout"]

\* lines 705-717: a caller calls waitForElementToBeStable; the method runs up
\* to its first await
StableCall ==
    /\ bp.fn = "none"
    /\ \E timeout \in StableTimeoutOptions, checkInterval \in CheckIntervalOptions,
          maxPositionDifference \in MaxPositionDifferenceOptions :
           bp' = StableLoopTest(
                     [fn |-> "waitForElementToBeStable", pc |-> "start",
                      timeout |-> OrElse(timeout, JsNumber(DefaultStableTimeout)).d,
                      checkInterval |-> OrElse(checkInterval, JsNumber(DefaultCheckInterval)).d,
                      maxPositionDifference |->
                          OrElse(maxPositionDifference,
                                 JsNumber(DefaultMaxPositionDifference)).d,
                      previousBox |-> JsNull, stableCount |-> 0, elapsed |-> 0,
                      comparisons |-> <<>>, via |-> "none", thrown |-> Undefined])
    /\ UNCHANGED <<fs, inv, shots, itext, iform, iresult, gw, llm, ollama>>

\* the last two entries of a sequence
LastTwo(s) == IF Len(s) <= 2 THEN s ELSE SubSeq(s, Len(s) - 1, Len(s))

\* lines 719-757 after loc.boundingBox() has resolved to a box: the position is
\* rounded and compared with the previous one.  comparisons keeps the last two
\* comparisons made.
BoxMeasured(b, box) ==
    LET currentPosition == [x |-> MathRound(box.x), y |-> MathRound(box.y)] IN
    IF b.previousBox = JsNull
    THEN [b EXCEPT !.previousBox = currentPosition, !.pc = "wait"]
    ELSE LET xDiff == Abs(currentPosition.x - b.previousBox.x)
             yDiff == Abs(currentPosition.y - b.previousBox.y)
             within == xDiff <= b.maxPositionDifference /\ yDiff <= b.maxPositionDifference
             stableCount == StableCountAfter(b.stableCount, within)
             seen == [b EXCEPT !.stableCount = stableCount,
                               !.comparisons =
                                   LastTwo(Append(@, [xDiff |-> xDiff, yDiff |-> yDiff]))]
         IN  IF within /\ stableCount >= 2
             THEN [seen EXCEPT !.pc = "returned", !.via = "stable"]
             ELSE [seen EXCEPT !.previousBox = currentPosition, !.pc = "wait"]

\* lines 719-727 and 759-761: loc.boundingBox() settles
BoundingBoxSettles ==
    /\ bp.fn = "waitForElementToBeStable"
    /\ bp.pc = "boundingBox"
    /\ \E outcome \in BoundingBoxOutcomes :
           bp' = CASE outcome.kind = "rejected" -> [bp EXCEPT !.pc = "waitInCatch"]
                   [] outcome.kind = "null" -> [bp EXCEPT !.pc = "wait"]
                   [] OTHER -> BoxMeasured(bp, outcome)
    /\ UNCHANGED <<fs, inv, shots, itext, iform, iresult, gw, llm, ollama>>

\* the time a page.waitForTimeout(checkInterval) takes: the interval, or twice
\* the interval when the timer is late; elapsed stops counting at the timeout
Elapsed(b, late) ==
    LET e == b.elapsed + (IF late THEN 2 ELSE 1) * Abs(b.checkInterval) IN
    IF e >= b.timeout THEN (IF b.timeout > 0 THEN b.timeout ELSE 0) ELSE e

\* lines 726 and 758: the wait inside the try block settles; its rejection is
\* caught at line 759
WaitSettles ==
    /\ bp.fn = "waitForElementToBeStable"
    /\ bp.pc = "wait"
    /\ \E outcome \in {"ok", "late", "rejected"} :
           IF outcome = "rejected"
           THEN bp' = [bp EXCEPT !.pc = "waitInCatch"]
           ELSE bp' = StableLoopTest([bp EXCEPT !.elapsed = Elapsed(bp, outcome = "late")])
    /\ UNCHANGED <<fs, inv, shots, itext, iform, iresult, gw, llm, ollama>>

\* line 761: the wait of the catch block settles; its rejection leaves the method
WaitInCatchSettles ==
    /\ bp.fn = "waitForElementToBeStable"
    /\ bp.pc = "waitInCatch"
    /\ \E outcome \in {"ok", "late", "rejected"} :
           IF outcome = "rejected"
           THEN bp' = [bp EXCEPT !.pc = "thrown", !.thrown = WaitForTimeoutError]
           ELSE bp' = StableLoopTest([bp EXCEPT !.elapsed = Elapsed(bp, outcome = "late")])
    /\ UNCHANGED <<fs, inv, shots, itext, iform, iresult, gw, llm, ollama>>

(***************************************************************************)
(* LLMUtils.isOllamaRunning and LLMUtils.startOllama                       *)
(***************************************************************************)
\* the Ollama server as the process finds it: not listening, listening with no
\* model pulled, listening with a model
ServerStates == {"down", "upNoModels", "upWithModels"}

\* LocalLLMService.listAvailableModels, part_005 lines 827-839: the names of
\* response.data.models || [], and [] when the request fails
ListAvailableModels(server) == IF server = "upWithModels" THEN <<"llava:latest">> ELSE <<>>

\* lines 37-49: models.length > 0 (the catch block returns false; neither the
\* constructor nor listAvailableModels throws)
IsOllamaRunning(server) == Len(ListAvailableModels(server)) > 0

\* line 68: for (let i = 0; i < 5; i++)
OllamaPolls == 5

OllamaIdle(server) ==
    [pc |-> "idle", server |-> server, serverAtCheck |-> "none", launches |-> 0,
     i |-> 0, polls |-> <<>>, execOutcome |-> "none", result |-> Undefined]

\* a caller calls LLMUtils.startOllama(): line 57 awaits isOllamaRunning()
StartOllamaCall ==
    /\ ollama.pc = "idle"
    /\ ollama' = [ollama EXCEPT !.pc = "firstCheck"]
    /\ UNCHANGED <<fs, inv, shots, itext, iform, iresult, gw, llm, bp>>

\* the server starts, stops, or gets or loses its models, whatever the process does
ServerChanges ==
    /\ ollama.pc \notin {"idle", "returned"}
    /\ \E server \in ServerStates \ {ollama.server} :
           ollama' = [ollama EXCEPT !.server = server]
    /\ UNCHANGED <<fs, inv, shots, itext, iform, iresult, gw, llm, bp>>

\* lines 57-65: the first check settles; the method returns true, or calls
\* execPromise("ollama serve &")
FirstCheckSettles ==
    /\ ollama.pc = "firstCheck"
    /\ ollama' = IF IsOllamaRunning(ollama.server)
                 THEN [ollama EXCEPT !.pc = "returned", !.serverAtCheck = ollama.server,
                                     !.result = JsBoolean(TRUE)]
                 ELSE [ollama EXCEPT !.pc = "exec", !.serverAtCheck = ollama.server,
                                     !.launches = @ + 1]
    /\ UNCHANGED <<fs, inv, shots, itext, iform, iresult, gw, llm, bp>>

\* line 65 and lines 78-84: the launch settles; its rejection is caught and
\* the method returns false
ExecSettles ==
    /\ ollama.pc = "exec"
    /\ \E outcome \in {"resolved", "rejected"} :
           ollama' = IF outcome = "resolved"
                     THEN [ollama EXCEPT !.pc = "sleep", !.execOutcome = outcome]
                     ELSE [ollama EXCEPT !.pc = "returned", !.execOutcome = outcome,
                                         !.result = JsBoolean(FALSE)]
    /\ UNCHANGED <<fs, inv, shots, itext, iform, iresult, gw, llm, bp>>

\* line 69: the two seconds have passed
SleepSettles ==
    /\ ollama.pc = "sleep"
    /\ ollama' = [ollama EXCEPT !.pc = "poll"]
    /\ UNCHANGED <<fs, inv, shots, itext, iform, iresult, gw, llm, bp>>

\* lines 68-77: the check of one pass settles; polls keeps what each check found
PollSettles ==
    /\ ollama.pc = "poll"
    /\ \E running \in {IsOllamaRunning(ollama.server)} :
           ollama' = IF running
                     THEN [ollama EXCEPT !.pc = "returned", !.polls = Append(@, ollama.server),
                                         !.result = JsBoolean(TRUE)]
                     ELSE IF ollama.i + 1 < OllamaPolls
                     THEN [ollama EXCEPT !.pc = "sleep", !.polls = Append(@, ollama.server),
                                         !.i = @ + 1]
                     ELSE [ollama EXCEPT !.pc = "returned", !.polls = Append(@, ollama.server),
                                         !.i = @ + 1, !.result = JsBoolean(FALSE)]
    /\ UNCHANGED <<fs, inv, shots, itext, iform, iresult, gw, llm, bp>>

\* no call of BasePage or of startOllama is under way, and no server listens
PageIdle ==
    /\ bp = BasePageIdle
    /\ ollama = OllamaIdle("down")

(***************************************************************************)
(* Texts the model backend may answer with                                 *)
(***************************************************************************)
BoolWord(b) == IF b THEN TrueWord ELSE FalseWord

\* {"passed": <b><sep>"reason": "<raw>"}
VerdictObject(b, sep, raw) ==
    <<LBRACE>> \o KeyPassed \o <<":", SP>> \o BoolWord(b) \o sep
        \o KeyReason \o <<":", SP, Q>> \o raw \o <<Q, RBRACE>>

\* what stands between the value of passed and the key "reason"
CommaSeparators == {<<",", SP>>, <<",">>, <<",", NL>>, <<SP, ",", SP>>}
BareSeparators == {<<>>, <<SP, SP>>, <<NL>>, <<TAB, SP>>}

\* a reason as written between the quotes, and the string it denotes
ReasonCases ==
    {[raw |-> <<"o", "k">>, value |-> <<"o", "k">>],
     [raw |-> <<>>, value |-> <<>>],
     [raw |-> <<"a", LBRACE, "b", RBRACE>>, value |-> <<"a", LBRACE, "b", RBRACE>>],
     [raw |-> <<"a", BS, Q, "b", BS, "n">>, value |-> <<"a", Q, "b", NL>>],
     [raw |-> <<"x">> \o FenceJson \o <<"y">>, value |-> <<"x">> \o FenceJson \o <<"y">>]}

\* prose before and after the object
Prefixes == {<<>>, <<"O", "K", ":", SP>>, <<"a", RBRACE, SP>>, <<"s", "e", "e", SP, LBRACE, "x", RBRACE, SP>>}
Suffixes == {<<>>, <<SP, "d", "o", "n", "e">>, <<SP, LBRACE, "x">>, <<SP, "x", RBRACE>>}

\* Markdown code fences around the object
FenceKinds == {"none", "json", "plain"}
FenceOpen(kind) ==
    CASE kind = "none" -> <<>>
      [] kind = "json" -> FenceJson \o <<NL>>
      [] kind = "plain" -> Fence \o <<NL>>
FenceClose(kind) == IF kind = "none" THEN <<>> ELSE <<NL>> \o Fence

\* replies that are no verdict object, or a malformed one
OtherTexts ==
    {<<>>,
     <<"n", "o", SP, "j", "s", "o", "n">>,
     <<RBRACE, SP, LBRACE>>,
     <<LBRACE, Q, "o", "k", Q, ":", SP>> \o TrueWord \o <<RBRACE>>,
     <<LBRACE>> \o KeyPassed \o <<":", SP>> \o TrueWord \o <<RBRACE>>,
     <<LBRACE>> \o KeyPassed \o <<":", SP, Q>> \o TrueWord \o <<Q, ",", SP>>
         \o KeyReason \o <<":", SP, Q, "o", "k", Q, RBRACE>>,
     <<LBRACE>> \o KeyPassed \o <<":", SP, "1", ",", SP>>
         \o KeyReason \o <<":", SP, Q, "o", "k", Q, RBRACE>>,
     <<LBRACE>> \o KeyPassed \o <<":", SP>> \o TrueWord \o <<",", SP>>
         \o KeyReason \o <<":", SP, "7", RBRACE>>,
     <<LBRACE>> \o KeyReason \o <<":", SP, Q, "o", "k", Q, SP>>
         \o KeyPassed \o <<":", SP>> \o TrueWord \o <<RBRACE>>,
     <<LBRACE>> \o KeyPassed \o <<":", SP>> \o TrueWord \o <<",", SP>>
         \o KeyReason \o <<":", SP, Q, "o", "k", Q, ",", RBRACE>>,
     <<LBRACE>> \o KeyPassed \o <<SP, ":", SP>> \o TrueWord \o <<SP>>
         \o KeyReason \o <<":", SP, Q, "o", "k", Q, RBRACE>>,
     <<LBRACE>> \o KeyPassed \o <<":", SP>> \o TrueWord \o <<SP>>
         \o KeyReason \o <<SP, ":", SP, Q, "o", "k", Q, RBRACE>>,
     <<LBRACE, "'", "p", "a", "s", "s", "e", "d", "'", ":", SP>> \o TrueWord \o <<",", SP>>
         \o KeyReason \o <<":", SP, Q, "o", "k", Q, RBRACE>>,
     <<LBRACE>> \o KeyPassed \o <<":", SP>> \o TrueWord \o <<",", SP>>
         \o KeyReason \o <<":", SP, Q, "o", NL, "k", Q, RBRACE>>}

\* further replies for the interpreter on its own: texts with one brace or
\* none, in fences or not, and texts longer than the excerpts of the reasons
InterpreterTexts ==
    {<<LBRACE>> \o KeyPassed \o <<":", SP>> \o TrueWord,
     KeyPassed \o <<":", SP>> \o TrueWord \o <<RBRACE>>,
     FenceJson \o <<NL, "s", "a", "m", "e", NL>> \o Fence,
     <<RBRACE>> \o KeyPassed \o <<":", SP>> \o TrueWord \o <<LBRACE, NL>>,
     [k \in 1..120 |-> IF k <= 100 THEN "a" ELSE "b"],
     [k \in 1..100 |-> "a"],
     <<LBRACE, Q, "o", "k", Q, ":", SP, Q>>
         \o [k \in 1..220 |-> IF k <= 192 THEN "a" ELSE "b"] \o <<Q, RBRACE>>,
     <<"s", "e", "e", SP, LBRACE, Q, "o", "k", Q, ":", SP>> \o NullWord \o <<RBRACE>>,
     <<"[", "]", SP, LBRACE, RBRACE>>,
     <<LBRACE>> \o KeyPassed \o <<":", SP>> \o NullWord \o <<",", SP>>
         \o KeyReason \o <<":", SP, Q, "o", "k", Q, RBRACE>>,
     <<LBRACE>> \o KeyPassed \o <<":", SP>> \o FalseWord \o <<",", SP>>
         \o KeyReason \o <<":", SP, "[", Q, "o", "k", Q, "]", RBRACE>>,
     <<LBRACE>> \o KeyPassed \o <<":", SP>> \o TrueWord \o <<",", SP>>
         \o KeyReason \o <<":", SP, Q>> \o [k \in 1..110 |-> IF k <= 77 THEN "a" ELSE "b"]
         \o <<Q, ",", RBRACE>>,
     <<LBRACE>> \o KeyPassed \o <<":", SP, "1", SP>>
         \o KeyReason \o <<":", SP, Q, "o", "k", Q, RBRACE>>,
     <<LBRACE, "'", "p", "a", "s", "s", "e", "d", "'", ":", SP>> \o TrueWord
         \o <<SP, "'", "r", "e", "a", "s", "o", "n", "'", ":", SP, "'", "o", "k", "'", RBRACE>>}

\* line breaks as a reply may hold them
LineBreaks == {<<NL>>, <<CR, NL>>, <<CR>>}

\* reasons with literal line breaks between the quotes, and the string each
\* denotes once every line break is a space
LineBreakReasons ==
    {[raw |-> <<"o", NL, "k">>, value |-> <<"o", SP, "k">>],
     [raw |-> <<"a", CR, NL, "b">>, value |-> <<"a", SP, SP, "b">>],
     [raw |-> <<CR>>, value |-> <<SP>>],
     [raw |-> <<"a", BS, "n", NL>>, value |-> <<"a", NL, SP>>],
     [raw |-> <<"o", "k">>, value |-> <<"o", "k">>]}

\* {<open>"passed": <b>,<sep>"reason": "<raw>"<close>}
LineBreakObject(b, open, sep, raw, close) ==
    <<LBRACE>> \o open \o KeyPassed \o <<":", SP>> \o BoolWord(b) \o <<",">> \o sep
        \o KeyReason \o <<":", SP, Q>> \o raw \o <<Q>> \o close \o <<RBRACE>>

\* how a text handed to the interpreter is built
LineBreakForms ==
    [kind : {"linebreak"}, passed : BOOLEAN, open : LineBreaks \cup {<<>>},
     sep : LineBreaks \cup {<<SP>>}, reason : LineBreakReasons,
     close : LineBreaks \cup {<<>>}, fence : {"none", "json"}]
VerdictForms ==
    [kind : {"verdict"}, passed : BOOLEAN, sep : CommaSeparators \cup BareSeparators,
     reason : ReasonCases, prefix : Prefixes, fence : FenceKinds, suffix : Suffixes]
OtherForms == [kind : {"other"}, text : OtherTexts \cup InterpreterTexts]

Render(form) ==
    IF form.kind = "linebreak"
    THEN FenceOpen(form.fence)
             \o LineBreakObject(form.passed, form.open, form.sep, form.reason.raw, form.close)
             \o FenceClose(form.fence)
    ELSE IF form.kind = "verdict"
    THEN form.prefix \o FenceOpen(form.fence)
             \o VerdictObject(form.passed, form.sep, form.reason.raw)
             \o FenceClose(form.fence) \o form.suffix
    ELSE form.text

\* the replies the orchestrator model draws from
OrchestratorReplies ==
    OtherTexts \cup
    {VerdictObject(TRUE, <<",", SP>>, <<"o", "k">>),
     VerdictObject(FALSE, <<",", SP>>, <<"o", "k">>),
     VerdictObject(TRUE, <<SP, SP>>, <<"o", "k">>),
     FenceJson \o <<NL>> \o VerdictObject(TRUE, <<",", NL>>, <<>>) \o <<NL>> \o Fence}

\* what the call of the on-device backend may do
LocalOutcomes ==
    {RaisedError(m) : m \in TransportErrors}
        \cup {RaisedValue(<<"aborted">>)}
        \cup {Replied(JsNull), Replied(ReplyBody(Undefined))}
        \cup {Replied(ReplyBody(JsString(t))) : t \in OrchestratorReplies}

(***************************************************************************)
(* expectPageToMatchVisuallyAI: one action per stretch of code between two *)
(* awaits                                                                  *)
(***************************************************************************)
InitFs == [files |-> [p \in Paths |-> NoFile], dirs |-> {}]

HarnessIdle ==
    /\ itext = Undefined
    /\ iform = [kind |-> "none"]
    /\ iresult = NoResult
    /\ gw = [calls |-> 0]

\* the process starts under either of the two modes that the type of
\* Config.aiServiceMode names: on-device, or Google with its API key
Init ==
    /\ fs = InitFs
    /\ inv = [i \in Invs |-> IdleInv]
    /\ shots = 0
    /\ HarnessIdle
    /\ \E config \in {<<"local", "">>, <<"google", "key">>} :
           llm = LLMUtilsInit(config[1], config[2])
    /\ PageIdle

Throw(i, step, what) ==
    inv' = [inv EXCEPT ![i].pc = "thrown", ![i].result = ThrownError(<<what>>),
                       ![i].steps = Append(@, step)]

\* a test calls expectPageToMatchVisuallyAI(page, name, {updateBaselines, mask});
\* the tests await each call before they make the next
Start(i) ==
    /\ \A j \in Invs : inv[j].pc = "idle"
    /\ shots < MaxShots
    /\ \E name \in Names, update \in UpdateOptions, mask \in MaskOptions :
           inv' = [inv EXCEPT ![i] =
                       [IdleInv EXCEPT !.pc = "ensureBaselineDir", !.name = name,
                                       !.update = update, !.mask = mask,
                                       !.baselineAtStart = fs.files[BaselinePath(name)]]]
    /\ UNCHANGED <<fs, shots, itext, iform, iresult, gw, llm, bp, ollama>>

\* lines 17-25: ensureDir swallows EEXIST and rethrows every other error
EnsureDir(i, dir, next) ==
    \E outcome \in MkdirOutcomes :
        /\ fs' = [fs EXCEPT !.dirs = IF outcome = "ok" THEN @ \cup {dir} ELSE @]
        /\ IF outcome \in {"ok", "EEXIST"}
           THEN inv' = [inv EXCEPT ![i].pc = next, ![i].steps = Append(@, inv[i].pc)]
           ELSE Throw(i, inv[i].pc, outcome)

\* line 56
EnsureBaselineDir(i) ==
    /\ inv[i].pc = "ensureBaselineDir"
    /\ EnsureDir(i, baselineFolder, "ensureActualDir")
    /\ UNCHANGED <<shots, itext, iform, iresult, gw, llm, bp, ollama>>

\* faulty variant: the baseline is looked for before the page is captured
EnsureActualDirThenAccess(i) ==
    /\ inv[i].pc = "ensureActualDir"
    /\ EnsureDir(i, actualFolder, "access")
    /\ UNCHANGED <<shots, itext, iform, iresult, gw, llm, bp, ollama>>

\* line 57, then lines 59-72 up to the await of page.screenshot
EnsureActualDir(i) ==
    /\ inv[i].pc = "ensureActualDir"
    /\ EnsureDir(i, actualFolder, "screenshot")
    /\ UNCHANGED <<shots, itext, iform, iresult, gw, llm, bp, ollama>>

\* line 72: page.screenshot writes a new capture to the actual path, or fails
Screenshot(i) ==
    /\ inv[i].pc = "screenshot"
    /\ \E outcome \in FsOutcomes :
           IF outcome = "ok"
           THEN LET screenshotOptions == ScreenshotOptions(inv[i].name, inv[i].mask) IN
                /\ shots' = shots + 1
                /\ fs' = [fs EXCEPT !.files[screenshotOptions.path] = shots + 1]
                /\ inv' = [inv EXCEPT ![i].pc = "readActual",
                                      ![i].steps = Append(@, "screenshot"),
                                      ![i].capture = shots + 1,
                                      ![i].screenshotOptions = screenshotOptions]
           ELSE /\ Throw(i, "screenshot", "screenshot failed")
                /\ UNCHANGED <<fs, shots>>
    /\ UNCHANGED <<itext, iform, iresult, gw, llm, bp, ollama>>

\* line 75: fs.readFile(actualPath)
ReadActual(i) ==
    /\ inv[i].pc = "readActual"
    /\ \E outcome \in FsOutcomes :
           IF outcome = "ok" /\ fs.files[ActualPath(inv[i].name)] # NoFile
           THEN inv' = [inv EXCEPT ![i].pc = "access",
                                   ![i].steps = Append(@, "readActual"),
                                   ![i].actualBuffer = fs.files[ActualPath(inv[i].name)]]
           ELSE Throw(i, "readActual", "readFile failed")
    /\ UNCHANGED <<fs, shots, itext, iform, iresult, gw, llm, bp, ollama>>

\* lines 79-88: fs.access(baselinePath); every failure counts as "no baseline"
Access(i) ==
    /\ inv[i].pc = "access"
    /\ \E outcome \in FsOutcomes :
           LET exists == outcome = "ok" /\ fs.files[BaselinePath(inv[i].name)] # NoFile
               write == CreateOrUpdate(inv[i].update, exists)
           IN  inv' = [inv EXCEPT ![i].baselineExists = exists,
                                  ![i].steps = Append(@, "access"),
                                  ![i].branch = IF write THEN "baseline" ELSE "compare",
                                  ![i].pc = IF write THEN "copyFile" ELSE "readBaseline"]
    /\ UNCHANGED <<fs, shots, itext, iform, iresult, gw, llm, bp, ollama>>

\* lines 89-93: copy the actual file over the baseline and return
CopyToBaseline(i) ==
    /\ inv[i].pc = "copyFile"
    /\ \E outcome \in FsOutcomes :
           IF outcome = "ok" /\ fs.files[ActualPath(inv[i].name)] # NoFile
           THEN /\ fs' = [fs EXCEPT !.files = CopyFile(@, ActualPath(inv[i].name),
                                                       BaselinePath(inv[i].name))]
                /\ inv' = [inv EXCEPT ![i].pc = "returned",
                                      ![i].steps = Append(@, "copyFile"),
                                      ![i].result = BaselineVerdict(inv[i].name)]
           ELSE /\ Throw(i, "copyFile", "copyFile failed")
                /\ UNCHANGED fs
    /\ UNCHANGED <<shots, itext, iform, iresult, gw, llm, bp, ollama>>

\* lines 98-140: read the baseline, build the request, call the gateway
ReadBaseline(i) ==
    /\ inv[i].pc = "readBaseline"
    /\ \E outcome \in FsOutcomes :
           IF outcome = "ok" /\ fs.files[BaselinePath(inv[i].name)] # NoFile
           THEN inv' = [inv EXCEPT ![i].pc = "awaitLLM",
                                   ![i].steps = @ \o <<"readBaseline", "gateway">>,
                                   ![i].service = llmService.class,
                                   ![i].request =
                                       VisualRequest(Base64(fs.files[BaselinePath(inv[i].name)]),
                                                     Base64(inv[i].actualBuffer)),
                                   ![i].llmCalls = @ + 1]
           ELSE Throw(i, "readBaseline", "readFile failed")
    /\ UNCHANGED <<fs, shots, itext, iform, iresult, gw, llm, bp, ollama>>

\* lines 140-159: the gateway (the LocalLLMService of lines 28-31) resolves, and
\* the invocation returns a verdict or lets the error of the interpreter escape
\* (response and after are each computed once for an outcome)
GatewayResolvesFrom(i, outcomes) ==
    /\ inv[i].pc = "awaitLLM"
    /\ \E outcome \in outcomes :
         \E response \in {LocalGenerateMultimodal(inv[i].request, outcome)} :
           \E after \in {AfterGateway(inv[i].name, response)} :
               inv' = [inv EXCEPT ![i].response = response,
                                  ![i].interpretCalls = IF after.interpreted THEN @ + 1 ELSE @,
                                  ![i].steps = IF after.interpreted
                                               THEN Append(@, "interpret") ELSE @,
                                  ![i].result = after.result,
                                  ![i].pc = IF after.result.kind = "verdict"
                                            THEN "returned" ELSE "thrown"]
    /\ UNCHANGED <<fs, shots, itext, iform, iresult, gw, llm, bp, ollama>>

GatewayResolves(i) == GatewayResolvesFrom(i, LocalOutcomes)

\* the caller has used the verdict, or has seen the error
Finish(i) ==
    /\ inv[i].pc \in {"returned", "thrown"}
    /\ inv' = [inv EXCEPT ![i] = IdleInv]
    /\ UNCHANGED <<fs, shots, itext, iform, iresult, gw, llm, bp, ollama>>

Next ==
    \E i \in Invs :
        \/ Start(i)
        \/ EnsureBaselineDir(i)
        \/ EnsureActualDir(i)
        \/ Screenshot(i)
        \/ ReadActual(i)
        \/ Access(i)
        \/ CopyToBaseline(i)
        \/ ReadBaseline(i)
        \/ GatewayResolves(i)
        \/ Finish(i)

Spec == Init /\ [][Next]_vars

(***************************************************************************)
(* Invocations that are not awaited one after the other: tests running in  *)
(* parallel workers share the two folders, and each runs the code of       *)
(* expectPageToMatchVisuallyAI from its call to its return, interleaved    *)
(* with the others at the awaits                                           *)
(***************************************************************************)
\* the filesystem earlier runs have left: for each file pair, either nothing
\* or the capture 1 in both files
EarlierFiles ==
    {files \in [Paths -> {NoFile, 1}] :
         \A n \in Names : files[BaselinePath(n)] = files[ActualPath(n)]}

\* the backend outcomes in play when invocations overlap
ConcurrentOutcomes ==
    {RaisedError(<<"connect ECONNREFUSED 127.0.0.1:11434">>),
     Replied(ReplyBody(JsString(VerdictObject(TRUE, <<",", SP>>, <<"o", "k">>)))),
     Replied(ReplyBody(JsString(VerdictObject(FALSE, <<",", SP>>, <<"o", "k">>))))}

InitConcurrent ==
    /\ \E files \in EarlierFiles : fs = [files |-> files, dirs |-> {}]
    /\ inv = [i \in Invs |-> IdleInv]
    /\ shots = 1
    /\ HarnessIdle
    /\ llm = LLMUtilsInit("local", "")
    /\ PageIdle

\* a worker calls expectPageToMatchVisuallyAI while other calls may be under way
StartConcurrent(i) ==
    /\ inv[i].pc = "idle"
    /\ \E name \in Names, update \in UpdateOptions :
           inv' = [inv EXCEPT ![i] =
                       [IdleInv EXCEPT !.pc = "ensureBaselineDir", !.name = name,
                                       !.update = update,
                                       !.baselineAtStart = fs.files[BaselinePath(name)]]]
    /\ UNCHANGED <<fs, shots, itext, iform, iresult, gw, llm, bp, ollama>>

GatewayResolvesConcurrent(i) == GatewayResolvesFrom(i, ConcurrentOutcomes)

\* two workers
Workers == {1, 2}

NextConcurrent ==
    \E i \in Workers :
        \/ StartConcurrent(i)
        \/ EnsureBaselineDir(i)
        \/ EnsureActualDir(i)
        \/ Screenshot(i)
        \/ ReadActual(i)
        \/ Access(i)
        \/ CopyToBaseline(i)
        \/ ReadBaseline(i)
        \/ GatewayResolvesConcurrent(i)

SpecConcurrent == InitConcurrent /\ [][NextConcurrent]_vars

(***************************************************************************)
(* The interpreter on its own: interpretAIJsonResponse applied to one text *)
(***************************************************************************)
OrchestratorIdle ==
    /\ fs = InitFs
    /\ inv = [i \in Invs |-> IdleInv]
    /\ shots = 0

InterpForms ==
    VerdictForms \cup LineBreakForms \cup OtherForms \cup {[kind |-> "undefined"]}

InitInterp ==
    /\ OrchestratorIdle
    /\ llm = LLMUtilsInit("local", "")
    /\ gw = [calls |-> 0]
    /\ iresult = NoResult
    /\ \E form \in InterpForms :
           /\ iform = form
           /\ itext = IF form.kind = "undefined" THEN Undefined ELSE JsString(Render(form))
    /\ PageIdle

Interpret ==
    /\ iresult = NoResult
    /\ iresult' = [kind |-> "done", r |-> interpretAIJsonResponse(itext)]
    /\ UNCHANGED <<fs, inv, shots, itext, iform, gw, llm, bp, ollama>>

NextInterp == Interpret

SpecInterp == InitInterp /\ [][NextInterp]_vars

(***************************************************************************)
(* The gateway on its own: generateMultimodalResponse of either backend    *)
(***************************************************************************)
\* direct calls of the gateway in one run of the model
MaxGatewayCalls == 2

Backends == {"local", "google"}

GatewayRequests ==
    [model : {Undefined, JsString(<<"llava:latest">>)},
     images : {Undefined, JsArray(<<>>), JsArray(<<Base64(1), Base64(2)>>)},
     temperature : {Undefined, JsNumber(0), JsNumber(VisualTemperature)},
     maxTokens : {Undefined}]

GatewayTexts == {<<>>, <<"n", "o", SP, "j", "s", "o", "n">>,
                 VerdictObject(TRUE, <<",", SP>>, <<"o", "k">>)}

\* what the backend call may do: the cloud SDK hands back a string, the body of
\* a reply of the on-device server is whatever the server sent
GatewayOutcomes(backend) ==
    {RaisedError(m) : m \in TransportErrors} \cup {RaisedValue(<<"aborted">>)}
        \cup (IF backend = "local"
              THEN {Replied(JsNull), Replied(ReplyBody(Undefined))}
                       \cup {Replied(ReplyBody(JsString(t))) : t \in GatewayTexts}
              ELSE {Replied(JsString(t)) : t \in GatewayTexts})

InitGateway ==
    /\ OrchestratorIdle
    /\ llm = LLMUtilsInit("local", "")
    /\ itext = Undefined
    /\ iform = [kind |-> "none"]
    /\ iresult = NoResult
    /\ gw = [calls |-> 0]
    /\ PageIdle

GatewayCall ==
    /\ gw.calls < MaxGatewayCalls
    /\ \E backend \in Backends, request \in GatewayRequests :
         \E outcome \in GatewayOutcomes(backend) :
           gw' = [calls |-> gw.calls + 1, backend |-> backend, request |-> request,
                  outcome |-> outcome,
                  payload |-> IF backend = "local"
                              THEN LocalPayload(request, JsString(<<"llama3:latest">>))
                              ELSE GooglePayload(request, JsString(<<"gemini-pro-vision">>)),
                  response |-> GenerateMultimodalResponse(backend, request, outcome)]
    /\ UNCHANGED <<fs, inv, shots, itext, iform, iresult, llm, bp, ollama>>

NextGateway == GatewayCall

SpecGateway == InitGateway /\ [][NextGateway]_vars

(***************************************************************************)
(* LLMUtils on its own: calls of getLLMService in one process              *)
(***************************************************************************)
\* calls of getLLMService, and assignments to the configuration, in one run
MaxLLMCalls == 3
MaxConfigChanges == 2

InitLLMUtils ==
    /\ OrchestratorIdle
    /\ HarnessIdle
    /\ \E aiServiceMode \in AiServiceModes, googleApiKey \in GoogleApiKeys :
           llm = LLMUtilsInit(aiServiceMode, googleApiKey)
    /\ PageIdle

\* some code of the process calls LLMUtils.getLLMService()
GetLLMService ==
    /\ llm.calls < MaxLLMCalls
    /\ llm' = getLLMService(llm)
    /\ UNCHANGED <<fs, inv, shots, itext, iform, iresult, gw, bp, ollama>>

\* The fields of Config are plain static properties (readonly is checked by the
\* compiler only): code of the process can assign them while it runs.
ConfigChanges ==
    /\ llm.changes < MaxConfigChanges
    /\ \E aiServiceMode \in AiServiceModes, googleApiKey \in GoogleApiKeys :
           /\ <<aiServiceMode, googleApiKey>> # <<llm.aiServiceMode, llm.googleApiKey>>
           /\ llm' = [llm EXCEPT !.aiServiceMode = aiServiceMode,
                                  !.googleApiKey = googleApiKey,
                                  !.changes = @ + 1]
    /\ UNCHANGED <<fs, inv, shots, itext, iform, iresult, gw, bp, ollama>>

NextLLMUtils == GetLLMService \/ ConfigChanges

SpecLLMUtils == InitLLMUtils /\ [][NextLLMUtils]_vars

(***************************************************************************)
(* BasePage on its own: one call of clickWithRetry, fillWithRetry or       *)
(* waitForElementToBeStable                                                *)
(***************************************************************************)
InitBasePage ==
    /\ OrchestratorIdle
    /\ HarnessIdle
    /\ llm = LLMUtilsInit("local", "")
    /\ PageIdle

NextBasePage ==
    \/ RetryCall
    \/ AttemptSettles
    \/ DelaySettles
    \/ StableCall
    \/ BoundingBoxSettles
    \/ WaitSettles
    \/ WaitInCatchSettles

SpecBasePage == InitBasePage /\ [][NextBasePage]_vars

(***************************************************************************)
(* LLMUtils.startOllama on its own: one call, beside a server that comes   *)
(* and goes                                                                *)
(***************************************************************************)
InitOllama ==
    /\ OrchestratorIdle
    /\ HarnessIdle
    /\ llm = LLMUtilsInit("local", "")
    /\ bp = BasePageIdle
    /\ \E server \in ServerStates : ollama = OllamaIdle(server)

NextOllama ==
    \/ StartOllamaCall
    \/ ServerChanges
    \/ FirstCheckSettles
    \/ ExecSettles
    \/ SleepSettles
    \/ PollSettles

SpecOllama == InitOllama /\ [][NextOllama]_vars

(***************************************************************************)
(* Properties                                                              *)
(***************************************************************************)
Ended(i) == inv[i].pc \in {"returned", "thrown"}

\* the gateway has resolved for invocation i
Resolved(i) == Ended(i) /\ inv[i].llmCalls > 0

\* C1: an invocation for a name that had no baseline file never reaches the
\* comparison, and when it returns its verdict is passed=true with the reason
\* "Baseline created/updated." and the baseline file exists and holds the same
\* content as the actual file.
C1_FirstRunCreatesBaseline ==
    \A i \in Invs :
        inv[i].baselineAtStart = NoFile /\ inv[i].pc # "idle" =>
            /\ inv[i].pc \notin {"readBaseline", "awaitLLM"}
            /\ inv[i].pc = "returned" =>
                   /\ IsTrue(inv[i].result.passed)
                   /\ inv[i].result.reason = <<"Baseline created/updated.">>
                   /\ fs.files[BaselinePath(inv[i].name)] # NoFile
                   /\ fs.files[BaselinePath(inv[i].name)] = fs.files[ActualPath(inv[i].name)]

C1_Witness ==
    \E i \in Invs :
        /\ inv[i].pc = "returned"
        /\ inv[i].baselineAtStart = NoFile
        /\ inv[i].capture # NoFile

\* C2: an invocation with updateBaselines=true that returns has the verdict
\* passed=true, and the baseline file then holds the capture this invocation
\* took, whatever the baseline held before.
C2_UpdateOverwritesBaseline ==
    \A i \in Invs :
        inv[i].pc = "returned" /\ Truthy(inv[i].update) =>
            /\ IsTrue(inv[i].result.passed)
            /\ inv[i].capture # NoFile
            /\ fs.files[BaselinePath(inv[i].name)] = inv[i].capture

C2_Witness ==
    \E i \in Invs :
        /\ inv[i].pc = "returned"
        /\ Truthy(inv[i].update)
        /\ inv[i].baselineAtStart # NoFile
        /\ inv[i].baselineAtStart # inv[i].capture

\* C3: one invocation calls the gateway at most once; not at all when the
\* baseline was absent or an update was requested; exactly once when it ends
\* after having found a baseline with no update requested and read it (it
\* returns a verdict, or the error of the interpreter escapes).
C3_GatewayCalledAtMostOnce ==
    \A i \in Invs :
        /\ inv[i].llmCalls <= 1
        /\ inv[i].interpretCalls <= inv[i].llmCalls
        /\ (inv[i].pc # "idle" /\ (inv[i].baselineAtStart = NoFile \/ Truthy(inv[i].update)))
               => inv[i].llmCalls = 0
        /\ inv[i].branch = "baseline" => inv[i].llmCalls = 0
        /\ (inv[i].pc = "returned" /\ inv[i].branch = "compare") => inv[i].llmCalls = 1
        /\ (inv[i].pc = "thrown" /\ inv[i].result.error = TypeErrorMessage)
               => inv[i].llmCalls = 1

C3_Witness ==
    \E i \in Invs :
        /\ inv[i].pc = "returned"
        /\ inv[i].branch = "compare"
        /\ inv[i].llmCalls = 1
        /\ ~inv[i].response.success

\* the replies of OrchestratorReplies that hold a JSON object whose passed is
\* the boolean true and whose reason is a string
PassingReplies ==
    {VerdictObject(TRUE, <<",", SP>>, <<"o", "k">>),
     VerdictObject(TRUE, <<SP, SP>>, <<"o", "k">>),
     FenceJson \o <<NL>> \o VerdictObject(TRUE, <<",", NL>>, <<>>) \o <<NL>> \o Fence,
     <<LBRACE>> \o KeyPassed \o <<":", SP>> \o TrueWord \o <<",", SP>>
         \o KeyReason \o <<":", SP, Q, "o", NL, "k", Q, RBRACE>>}

\* C4: a returned verdict has passed=true only in the created/updated branch or
\* for a gateway reply that holds a JSON object with passed the boolean true and
\* reason a string; for every other reply text the returned verdict has
\* passed=false.
C4_PassOnlyOnBaselineOrParsedTrue ==
    \A i \in Invs :
        inv[i].pc = "returned" =>
            /\ IsTrue(inv[i].result.passed) =>
                   \/ /\ inv[i].branch = "baseline"
                      /\ inv[i].result.reason = <<"Baseline created/updated.">>
                   \/ /\ inv[i].branch = "compare"
                      /\ inv[i].response.success
                      /\ inv[i].response.text.t = "string"
                      /\ inv[i].response.text.s \in PassingReplies
            /\ (/\ inv[i].branch = "compare"
                /\ inv[i].response.success
                /\ inv[i].response.text.t = "string"
                /\ inv[i].response.text.s \notin PassingReplies)
                   => IsFalse(inv[i].result.passed)

C4_Witness ==
    \E i \in Invs :
        /\ inv[i].pc = "returned"
        /\ inv[i].branch = "compare"
        /\ inv[i].response.success
        /\ IsTrue(inv[i].result.passed)

\* C5: for every gateway reply with success=true, also one whose text is
\* absent, the invocation returns a verdict (nothing is thrown), and a verdict
\* of an interpretation failure has passed=false and a non-empty reason.
C5_InterpretationNeverThrows ==
    \A i \in Invs :
        (Resolved(i) /\ inv[i].response.success) =>
            /\ inv[i].pc = "returned"
            /\ inv[i].result.kind = "verdict"
            /\ (inv[i].response.text.t # "string"
                \/ inv[i].response.text.s \notin PassingReplies)
                   => (IsFalse(inv[i].result.passed) /\ Len(inv[i].result.reason) > 0)

\* C6: when the gateway resolves with success=false the invocation returns a
\* verdict with passed=false whose reason contains the error string of the
\* gateway, and the interpreter is not run.
C6_GatewayFailureBecomesVerdict ==
    \A i \in Invs :
        (Resolved(i) /\ ~inv[i].response.success) =>
            /\ inv[i].pc = "returned"
            /\ IsFalse(inv[i].result.passed)
            /\ inv[i].response.error.t = "string"
            /\ Len(inv[i].response.error.s) > 0
            /\ Includes(inv[i].result.reason, inv[i].response.error.s)
            /\ inv[i].interpretCalls = 0

C6_Witness ==
    \E i \in Invs :
        /\ Resolved(i)
        /\ ~inv[i].response.success
        /\ inv[i].pc = "returned"

\* C7: generateMultimodalResponse of either backend always resolves to a
\* response; when the backend call raised, the response is
\* {text: "", success: false, error: <message>}; success=true only when the
\* backend call completed.
C7_GatewayNeverThrows ==
    gw.calls > 0 =>
        /\ gw.response.success \in BOOLEAN
        /\ gw.outcome.kind = "raisedError" =>
               gw.response = [text |-> JsString(<<>>), success |-> FALSE,
                              error |-> JsString(gw.outcome.message)]
        /\ gw.outcome.kind = "raisedValue" =>
               gw.response = [text |-> JsString(<<>>), success |-> FALSE,
                              error |-> JsString(gw.outcome.str)]
        /\ gw.response.success => gw.outcome.kind = "replied"
        /\ ~gw.response.success =>
               (gw.response.text = JsString(<<>>) /\ gw.response.error.t = "string")

C7_Witness ==
    /\ gw.calls > 0
    /\ gw.backend = "google"
    /\ gw.outcome.kind = "raisedError"
    /\ ~gw.response.success

\* C8: a 2xx reply of the on-device backend that carries no response text is
\* answered with success=false; success=true never comes with a missing text.
C8_MalformedReplyIsFailure ==
    (gw.calls > 0 /\ gw.backend = "local") =>
        /\ gw.outcome = Replied(ReplyBody(Undefined)) => ~gw.response.success
        /\ gw.response.success => gw.response.text.t = "string"

\* prose that cannot move the first "{" or the last "}" of the text
BraceFreeProse(form) ==
    /\ \A k \in 1..Len(form.prefix) : form.prefix[k] # LBRACE
    /\ \A k \in 1..Len(form.suffix) : form.suffix[k] # RBRACE

\* the reason does not hold the fence marker that step 1 removes
FenceFreeReason(form) == ~Includes(form.reason.raw, FenceJson)

RoundTrips(form, r) ==
    /\ ~r.threw
    /\ r.passed = JsBoolean(form.passed)
    /\ r.reason = form.reason.value

\* C9 as stated: every well-formed verdict object, in fences or not, with any
\* prose around it, is interpreted to exactly {passed, reason}.
C9_RoundTripAnyProse ==
    (iresult.kind = "done" /\ iform.kind = "verdict" /\ iform.sep \in CommaSeparators)
        => RoundTrips(iform, iresult.r)

\* C9 amended: every well-formed verdict object whose reason does not contain
\* the fence marker, in fences or not, preceded by prose without "{" and
\* followed by prose without "}", is interpreted to exactly {passed, reason}.
C9_RoundTripBraceFreeProse ==
    (/\ iresult.kind = "done"
     /\ iform.kind = "verdict"
     /\ iform.sep \in CommaSeparators
     /\ BraceFreeProse(iform)
     /\ FenceFreeReason(iform))
        => RoundTrips(iform, iresult.r)

C9_Witness ==
    /\ iresult.kind = "done"
    /\ iform.kind = "verdict"
    /\ iform.sep \in CommaSeparators
    /\ iform.fence = "json"
    /\ iform.prefix = <<"a", RBRACE, SP>>
    /\ iform.suffix = <<SP, LBRACE, "x">>
    /\ iform.reason.raw = <<"a", LBRACE, "b", RBRACE>>
    /\ RoundTrips(iform, iresult.r)

\* a separator with its line breaks turned into spaces
FlatSeparator(sep) == [k \in 1..Len(sep) |-> IF sep[k] \in {NL, CR} THEN SP ELSE sep[k]]

\* C10: in a verdict object whose "passed": <bool> is followed by whitespace
\* only and then "reason":, the comma is inserted right after the boolean and
\* the object is parsed to {passed, reason}; an object that has the comma
\* reaches JSON.parse unchanged.
C10_MissingCommaRepaired ==
    (/\ iresult.kind = "done"
     /\ iform.kind = "verdict"
     /\ BraceFreeProse(iform)
     /\ FenceFreeReason(iform))
        => /\ RoundTrips(iform, iresult.r)
           /\ iform.sep \in BareSeparators =>
                  iresult.r.parseInput =
                      VerdictObject(iform.passed, <<",">> \o FlatSeparator(iform.sep),
                                    iform.reason.raw)
           /\ iform.sep \in CommaSeparators =>
                  iresult.r.parseInput =
                      VerdictObject(iform.passed, FlatSeparator(iform.sep), iform.reason.raw)

C10_Witness ==
    /\ iresult.kind = "done"
    /\ iform.kind = "verdict"
    /\ iform.sep = <<SP, SP>>
    /\ iform.prefix = <<>>
    /\ iform.suffix = <<>>
    /\ iform.fence = "none"
    /\ IsTrue(iresult.r.passed)
    /\ iresult.r.reason = <<"o", "k">>

\* the text holds no "{", holds no "}", or its last "}" stands before its first "{"
NoObjectIn(text) ==
    LET opens == {k \in 1..Len(text) : text[k] = LBRACE}
        closes == {k \in 1..Len(text) : text[k] = RBRACE}
    IN  opens = {} \/ closes = {} \/ \A o \in opens, c \in closes : c < o

\* the first n characters of the text
Excerpt(text, n) == SubSeq(text, 1, IF Len(text) < n THEN Len(text) ELSE n)

\* C11 as stated: for every reply text that lacks a "{", lacks a "}", or has
\* its last "}" before its first "{", the result is passed=false with a reason
\* that mentions "no JSON".
C11_ReasonMentionsNoJson ==
    (iresult.kind = "done" /\ itext.t = "string" /\ NoObjectIn(itext.s))
        => /\ ~iresult.r.threw
           /\ IsFalse(iresult.r.passed)
           /\ Includes(iresult.r.reason, <<"n", "o", SP, "J", "S", "O", "N">>)

\* C11 amended: for every such reply text the result is passed=false, JSON.parse
\* is not reached, and the reason is "AI response could not be parsed as valid
\* JSON: Could not find valid JSON object delimiters {} in response. (Original:
\* <the first 100 characters of the reply>...)".
C11_NoDelimitersIsFailure ==
    (iresult.kind = "done" /\ itext.t = "string" /\ NoObjectIn(itext.s))
        => /\ ~iresult.r.threw
           /\ IsFalse(iresult.r.passed)
           /\ iresult.r.parseInput = <<>>
           /\ Includes(iresult.r.reason, NoDelimitersMessage)
           /\ EndsWithAt(iresult.r.reason, Len(iresult.r.reason),
                         <<SP, "(", "O", "r", "i", "g", "i", "n", "a", "l", ":", SP>>
                             \o Excerpt(itext.s, 100) \o <<".", ".", ".", ")">>)

C11_Witness ==
    /\ iresult.kind = "done"
    /\ itext = JsString(<<RBRACE>> \o KeyPassed \o <<":", SP>> \o TrueWord \o <<LBRACE, NL>>)
    /\ IsFalse(iresult.r.passed)
    /\ iresult.r.parseInput = <<>>

\* the replies of the interpreter on its own that hold a JSON object without a
\* boolean passed or without a string reason
WrongShapeTexts ==
    {<<LBRACE, Q, "o", "k", Q, ":", SP>> \o TrueWord \o <<RBRACE>>,
     <<LBRACE>> \o KeyPassed \o <<":", SP>> \o TrueWord \o <<RBRACE>>,
     <<LBRACE>> \o KeyPassed \o <<":", SP, Q>> \o TrueWord \o <<Q, ",", SP>>
         \o KeyReason \o <<":", SP, Q, "o", "k", Q, RBRACE>>,
     <<LBRACE>> \o KeyPassed \o <<":", SP, "1", ",", SP>>
         \o KeyReason \o <<":", SP, Q, "o", "k", Q, RBRACE>>,
     <<LBRACE>> \o KeyPassed \o <<":", SP>> \o TrueWord \o <<",", SP>>
         \o KeyReason \o <<":", SP, "7", RBRACE>>,
     <<LBRACE, Q, "o", "k", Q, ":", SP, Q>>
         \o [k \in 1..220 |-> IF k <= 192 THEN "a" ELSE "b"] \o <<Q, RBRACE>>,
     <<"s", "e", "e", SP, LBRACE, Q, "o", "k", Q, ":", SP>> \o NullWord \o <<RBRACE>>,
     <<"[", "]", SP, LBRACE, RBRACE>>,
     <<LBRACE>> \o KeyPassed \o <<":", SP>> \o NullWord \o <<",", SP>>
         \o KeyReason \o <<":", SP, Q, "o", "k", Q, RBRACE>>,
     <<LBRACE>> \o KeyPassed \o <<":", SP>> \o FalseWord \o <<",", SP>>
         \o KeyReason \o <<":", SP, "[", Q, "o", "k", Q, "]", RBRACE>>}

\* C12: for every reply that holds a JSON object without a boolean passed or
\* without a string reason, the result is passed=false and the reason is "AI
\* response was valid JSON but lacked expected fields: ", then the first 200
\* characters of the original reply (all of it when it is shorter), then "...".
C12_WrongShapeIsFailure ==
    (iresult.kind = "done" /\ itext.t = "string" /\ itext.s \in WrongShapeTexts)
        => /\ ~iresult.r.threw
           /\ IsFalse(iresult.r.passed)
           /\ iresult.r.reason =
                  <<"AI response was valid JSON but lacked expected fields: ">>
                      \o Excerpt(itext.s, 200) \o <<"...">>
           /\ Len(iresult.r.reason) <= 200 + 2
           /\ "b" \notin {iresult.r.reason[k] : k \in 1..Len(iresult.r.reason)}

C12_Witness ==
    /\ iresult.kind = "done"
    /\ itext.t = "string"
    /\ itext.s \in WrongShapeTexts
    /\ Len(itext.s) > 200
    /\ iresult.r.outcome = "missingFields"
    /\ IsFalse(iresult.r.passed)

\* the steps the ordering is stated for, in the order stated
OrderedSteps ==
    <<"ensureBaselineDir", "ensureActualDir", "screenshot", "access", "gateway", "interpret">>

IsPrefix(p, s) == Len(p) <= Len(s) /\ SubSeq(s, 1, Len(p)) = p

InOrderedSteps(step) == \E k \in 1..Len(OrderedSteps) : OrderedSteps[k] = step

\* C13: the steps an invocation has made are, in this order and each at most
\* once: ensure the baseline directory, ensure the actual directory, take the
\* screenshot, check the baseline, call the gateway, interpret the reply.  The
\* baseline is checked only after the screenshot was written, and the gateway
\* is called only after the check decided for the comparison.
C13_StepsInOrder ==
    \A i \in Invs :
        /\ IsPrefix(SelectSeq(inv[i].steps, InOrderedSteps), OrderedSteps)
        /\ Includes(inv[i].steps, <<"access">>) =>
               /\ inv[i].capture # NoFile
               /\ Includes(inv[i].steps, <<"screenshot">>)
        /\ Includes(inv[i].steps, <<"gateway">>) =>
               /\ inv[i].branch = "compare"
               /\ inv[i].baselineExists
               /\ ~Truthy(inv[i].update)
        /\ inv[i].llmCalls > 0 <=> Includes(inv[i].steps, <<"gateway">>)
        /\ inv[i].interpretCalls > 0 <=> Includes(inv[i].steps, <<"interpret">>)
        /\ inv[i].branch = "baseline" => ~Includes(inv[i].steps, <<"gateway">>)

C13_Witness ==
    \E i \in Invs :
        /\ inv[i].pc = "returned"
        /\ SelectSeq(inv[i].steps, InOrderedSteps) = OrderedSteps

\* the errors of the filesystem and of the browser
FilesystemOrBrowserErrors ==
    {<<"EACCES">>, <<"screenshot failed">>, <<"readFile failed">>, <<"copyFile failed">>}

\* the last call of the invocation failed in the filesystem or in the browser
FailedInFilesystemOrBrowser(i) ==
    /\ inv[i].pc = "thrown"
    /\ inv[i].result.kind = "thrown"
    /\ inv[i].result.error \in FilesystemOrBrowserErrors
    /\ Len(inv[i].steps) > 0
    /\ inv[i].steps[Len(inv[i].steps)] \in
           {"ensureBaselineDir", "ensureActualDir", "screenshot", "readActual",
            "copyFile", "readBaseline"}

\* C14: an invocation that has ended either returned a verdict or threw the
\* error of a failed directory creation, screenshot, read or copy, and in the
\* second case it produced no verdict and called no gateway after the failure.
C14_VerdictOrFilesystemError ==
    \A i \in Invs :
        /\ inv[i].pc = "returned" => inv[i].result.kind = "verdict"
        /\ inv[i].pc = "thrown" => FailedInFilesystemOrBrowser(i)
        /\ inv[i].result.kind # "none" => Ended(i)

\* the name as path.join leaves it: without its "." segments
JoinedName(name) == IF name = "./home" THEN "home" ELSE name

\* C15: while an invocation that found the baseline, with updateBaselines
\* unset, runs and when it has ended (whatever its verdict), the baseline file
\* holds what it held when the invocation began; and a step changes a baseline
\* file only when it is the copy of an invocation for that file that found no
\* baseline or was asked to update.
C15_ComparisonLeavesBaseline ==
    /\ [](\A i \in Invs :
              (inv[i].baselineExists /\ ~Truthy(inv[i].update)) =>
                  fs.files[BaselinePath(inv[i].name)] = inv[i].baselineAtStart)
    /\ [][\A name \in Names :
              fs'.files[BaselinePath(name)] # fs.files[BaselinePath(name)] =>
                  \E i \in Invs :
                      /\ JoinedName(inv[i].name) = JoinedName(name)
                      /\ inv[i].pc = "copyFile"
                      /\ inv'[i].pc = "returned"
                      /\ Truthy(inv[i].update) \/ ~inv[i].baselineExists]_vars

C15_Witness ==
    \E i \in Invs :
        /\ inv[i].pc = "returned"
        /\ inv[i].baselineExists
        /\ ~Truthy(inv[i].update)
        /\ inv[i].interpretCalls = 1
        /\ IsTrue(inv[i].result.passed)
        /\ inv[i].capture # inv[i].baselineAtStart
        /\ fs.files[BaselinePath(inv[i].name)] = inv[i].baselineAtStart

\* C16: when an invocation has returned a verdict, the actual file of its name
\* exists and holds the screenshot this invocation took, which is the newest
\* screenshot of the run and differs from every earlier capture.
C16_ActualHoldsThisCapture ==
    \A i \in Invs :
        inv[i].pc = "returned" =>
            /\ inv[i].capture # NoFile
            /\ inv[i].capture = shots
            /\ fs.files[ActualPath(inv[i].name)] = inv[i].capture

C16_Witness ==
    \E i \in Invs :
        /\ inv[i].pc = "returned"
        /\ inv[i].branch = "compare"
        /\ inv[i].interpretCalls = 1
        /\ IsFalse(inv[i].result.passed)
        /\ inv[i].capture > 1
        /\ inv[i].baselineAtStart = 1
        /\ fs.files[ActualPath(inv[i].name)] = inv[i].capture

\* C20: the screenshot call of an invocation is full-page and writes to the
\* actual path of the name; with a non-empty list of mask selectors it receives
\* one locator per selector, in the order given; with no mask option or an empty
\* list it receives no mask argument.
C20_MaskLocatorsInOrder ==
    \A i \in Invs :
        inv[i].capture # NoFile =>
            /\ inv[i].screenshotOptions.fullPage = TRUE
            /\ inv[i].screenshotOptions.path = ActualPath(inv[i].name)
            /\ inv[i].screenshotOptions.path \notin {BaselinePath(n) : n \in Names}
            /\ (inv[i].mask.t = "array" /\ Len(inv[i].mask.a) > 0) =>
                   /\ inv[i].screenshotOptions.mask.t = "array"
                   /\ Len(inv[i].screenshotOptions.mask.a) = Len(inv[i].mask.a)
                   /\ \A k \in 1..Len(inv[i].mask.a) :
                          inv[i].screenshotOptions.mask.a[k] = <<"locator", inv[i].mask.a[k]>>
            /\ (inv[i].mask.t = "undefined" \/ (inv[i].mask.t = "array" /\ Len(inv[i].mask.a) = 0)) =>
                   inv[i].screenshotOptions.mask = Undefined

C20_Witness ==
    \E i \in Invs :
        /\ inv[i].capture # NoFile
        /\ inv[i].mask = JsArray(<<".clock", ".ad">>)
        /\ inv[i].screenshotOptions.mask = JsArray(<<<<"locator", ".clock">>, <<"locator", ".ad">>>>)

\* C17: the service whose generateMultimodalResponse the visual comparison
\* calls is the cloud service when the configuration selects "google" and has an
\* API key, and the on-device service when it selects "local".
C17_ConfiguredBackendIsCalled ==
    \A i \in Invs :
        inv[i].llmCalls > 0 =>
            /\ (llm.aiServiceMode = "google" /\ llm.googleApiKey # "")
                   => inv[i].service = "GoogleLLMService"
            /\ llm.aiServiceMode = "local" => inv[i].service = "LocalLLMService"

\* the class the claim names for a mode and an API key
ClassFor(aiServiceMode, googleApiKey) ==
    IF aiServiceMode = "google" /\ googleApiKey # ""
    THEN "GoogleLLMService"
    ELSE "LocalLLMService"

\* C18: no call of getLLMService throws; the service a call returns is of the
\* class that the mode and the API key select (GoogleLLMService for "google"
\* with a key, LocalLLMService for "google" without a key and for every other
\* mode), where the mode and the key are those under which the service was
\* made, which are those of the call as long as the configuration is as the
\* process started with.
C18_ServiceFollowsMode ==
    /\ ~llm.threw
    /\ llm.calls > 0 =>
           /\ llm.returned.t = "object"
           /\ llm.returned.id \in 1..Len(llm.constructed)
           /\ llm.returned.class \in {"GoogleLLMService", "LocalLLMService"}
           /\ llm.returned.class =
                  ClassFor(llm.constructed[llm.returned.id].aiServiceMode,
                           llm.constructed[llm.returned.id].googleApiKey)
           /\ llm.changes = 0 =>
                  llm.returned.class = ClassFor(llm.aiServiceMode, llm.googleApiKey)

C18_Witness ==
    /\ llm.calls = 1
    /\ llm.aiServiceMode = "google"
    /\ llm.googleApiKey = ""
    /\ llm.changes = 0
    /\ llm.returned.t = "object"
    /\ llm.returned.class = "LocalLLMService"

\* C19: at most one service is ever made, and it is made by the first call of
\* getLLMService; every call returns that instance; once llmServiceInstance is
\* set no step replaces it, whatever the configuration becomes.
C19_ConstructedOnce ==
    /\ [](/\ Len(llm.constructed) <= 1
          /\ Len(llm.constructed) = 1 => llm.constructed[1].call = 1
          /\ llm.calls > 0 =>
                 /\ Len(llm.constructed) = 1
                 /\ llm.returned = ServiceInstance(llm.constructed[1].class, 1)
                 /\ llm.returned = llm.llmServiceInstance)
    /\ [][llm.llmServiceInstance.t = "object" =>
               llm'.llmServiceInstance = llm.llmServiceInstance]_vars

C19_Witness ==
    /\ llm.calls >= 2
    /\ llm.changes >= 1
    /\ llm.calledUnder = <<"google", "key">>
    /\ llm.constructed[1].aiServiceMode = "local"
    /\ llm.returned = ServiceInstance("LocalLLMService", 1)

\* C21: every request an invocation hands to the gateway carries exactly two
\* encoded images, the baseline file first and the capture just read second,
\* names the visual model, and has temperature 0.1 (1 tenth); the payload the
\* on-device backend builds from it keeps that temperature and those images.
C21_RequestShape ==
    \A i \in Invs :
        inv[i].request # NoRequest =>
            /\ inv[i].request.images.t = "array"
            /\ Len(inv[i].request.images.a) = 2
            /\ inv[i].request.images.a[1] = Base64(inv[i].baselineAtStart)
            /\ inv[i].request.images.a[2] = Base64(inv[i].actualBuffer)
            /\ inv[i].baselineAtStart # NoFile
            /\ inv[i].actualBuffer = inv[i].capture
            /\ inv[i].request.model = JsString(<<"llava:latest">>)
            /\ inv[i].request.temperature = JsNumber(1)
            /\ LocalPayload(inv[i].request, JsString(<<"llama3:latest">>)).temperature
                   = JsNumber(1)
            /\ LocalPayload(inv[i].request, JsString(<<"llama3:latest">>)).images
                   = inv[i].request.images
            /\ LocalPayload(inv[i].request, JsString(<<"llama3:latest">>)).model
                   = JsString(<<"llava:latest">>)

C21_Witness ==
    \E i \in Invs :
        /\ inv[i].pc = "awaitLLM"
        /\ inv[i].request # NoRequest
        /\ inv[i].baselineAtStart = 1
        /\ inv[i].capture = 2
        /\ inv[i].request.images = JsArray(<<Base64(1), Base64(2)>>)

AsAlone(i) ==
    LET name == inv[i].name
        capture == inv[i].capture
        baselineAtStart == inv[i].baselineAtStart
    IN  /\ inv[i].result.kind = "verdict"
        /\ capture # NoFile
        /\ inv[i].actualBuffer = capture
        /\ fs.files[ActualPath(name)] = capture
        /\ inv[i].baselineExists => baselineAtStart # NoFile
        /\ inv[i].branch = "baseline" <=> (Truthy(inv[i].update) \/ ~inv[i].baselineExists)
        /\ inv[i].branch = "baseline" =>
               /\ fs.files[BaselinePath(name)] = capture
               /\ inv[i].result.passed = JsBoolean(TRUE)
               /\ inv[i].result.reason = <<"Baseline created/updated.">>
        /\ inv[i].branch = "compare" =>
               /\ fs.files[BaselinePath(name)] = baselineAtStart
               /\ inv[i].request.images = JsArray(<<Base64(baselineAtStart), Base64(capture)>>)
               /\ inv[i].result = AfterGateway(name, inv[i].response).result

C24_ForeignBaselineIsRivalCapture ==
    \A i \in Workers :
        (/\ inv[i].pc = "returned"
         /\ inv[i].branch = "baseline"
         /\ fs.files[BaselinePath(inv[i].name)] # inv[i].capture)
            => \E j \in Workers \ {i} :
                   /\ inv[j].name = inv[i].name \/ {inv[i].name, inv[j].name} = {"home", "./home"}
                   /\ inv[j].capture # NoFile
                   /\ fs.files[BaselinePath(inv[i].name)] = inv[j].capture

\* j's screenshot came after i's and before i's copy: j has not copied
\* anything yet, so the capture in the baseline was put there by i
C24_Witness ==
    \E i, j \in Workers :
        /\ i # j
        /\ inv[i].name = "home" /\ inv[j].name = "home"
        /\ inv[i].pc = "returned"
        /\ inv[i].result.passed = JsBoolean(TRUE)
        /\ inv[i].result.reason = <<"Baseline created/updated.">>
        /\ inv[j].pc \in {"readActual", "access"}
        /\ inv[j].capture > inv[i].capture
        /\ inv[i].capture # NoFile
        /\ fs.files[BaselinePath("home")] = inv[j].capture

\* C25: the string handed to JSON.parse never holds a line feed or a carriage
\* return; a verdict object that is valid once its literal line breaks (after
\* "{", between the fields, inside the reason string, before "}") are spaces
\* is parsed to its passed value and to its reason with one space for each
\* line break, and what JSON.parse receives is the object with each line break
\* replaced by a space.
C25_LineBreaksBecomeSpaces ==
    /\ (iresult.kind = "done" /\ ~iresult.r.threw) =>
           \A k \in 1..Len(iresult.r.parseInput) : iresult.r.parseInput[k] \notin {NL, CR}
    /\ (iresult.kind = "done" /\ iform.kind = "linebreak") =>
           /\ ~iresult.r.threw
           /\ iresult.r.outcome = "parsed"
           /\ iresult.r.passed = JsBoolean(iform.passed)
           /\ iresult.r.reason = iform.reason.value
           /\ iresult.r.parseInput =
                  FlatSeparator(LineBreakObject(iform.passed, iform.open, iform.sep,
                                                iform.reason.raw, iform.close))

C25_Witness ==
    /\ iresult.kind = "done"
    /\ iform.kind = "linebreak"
    /\ iform.open = <<NL>>
    /\ iform.sep = <<CR, NL>>
    /\ iform.reason.raw = <<"a", CR, NL, "b">>
    /\ iresult.r.outcome = "parsed"
    /\ iresult.r.reason = <<"a", SP, SP, "b">>
    /\ IsFalse(iresult.r.passed)

\* malformed objects other than a missing comma between "passed": <bool> and
\* "reason":  -- a missing comma with "reason" first, a trailing comma (short
\* and longer than the excerpt), single-quoted keys, whitespace before the
\* colon of either key, a number for passed
MalformedTexts ==
    {<<LBRACE>> \o KeyReason \o <<":", SP, Q, "o", "k", Q, SP>>
         \o KeyPassed \o <<":", SP>> \o TrueWord \o <<RBRACE>>,
     <<LBRACE>> \o KeyPassed \o <<":", SP>> \o TrueWord \o <<",", SP>>
         \o KeyReason \o <<":", SP, Q, "o", "k", Q, ",", RBRACE>>,
     <<LBRACE>> \o KeyPassed \o <<":", SP>> \o TrueWord \o <<",", SP>>
         \o KeyReason \o <<":", SP, Q>> \o [k \in 1..110 |-> IF k <= 77 THEN "a" ELSE "b"]
         \o <<Q, ",", RBRACE>>,
     <<LBRACE, "'", "p", "a", "s", "s", "e", "d", "'", ":", SP>> \o TrueWord \o <<",", SP>>
         \o KeyReason \o <<":", SP, Q, "o", "k", Q, RBRACE>>,
     <<LBRACE, "'", "p", "a", "s", "s", "e", "d", "'", ":", SP>> \o TrueWord
         \o <<SP, "'", "r", "e", "a", "s", "o", "n", "'", ":", SP, "'", "o", "k", "'", RBRACE>>,
     <<LBRACE>> \o KeyPassed \o <<SP, ":", SP>> \o TrueWord \o <<SP>>
         \o KeyReason \o <<":", SP, Q, "o", "k", Q, RBRACE>>,
     <<LBRACE>> \o KeyPassed \o <<":", SP>> \o TrueWord \o <<SP>>
         \o KeyReason \o <<SP, ":", SP, Q, "o", "k", Q, RBRACE>>,
     <<LBRACE>> \o KeyPassed \o <<":", SP, "1", SP>>
         \o KeyReason \o <<":", SP, Q, "o", "k", Q, RBRACE>>}

\* the reason of line 222 around the parser's message: it ends with the first
\* 100 characters of the reply
IsParserFailureReason(reason, text) ==
    /\ StartsWithAt(reason, 0, <<"A", "I", SP, "r", "e", "s", "p", "o", "n", "s", "e", SP,
                                 "c", "o", "u", "l", "d", SP, "n", "o", "t", SP, "b", "e", SP,
                                 "p", "a", "r", "s", "e", "d">>)
    /\ Includes(reason, <<"SyntaxError of JSON.parse">>)
    /\ EndsWithAt(reason, Len(reason),
                  <<SP, "(", "O", "r", "i", "g", "i", "n", "a", "l", ":", SP>>
                      \o Excerpt(text, 100) \o <<".", ".", ".", ")">>)

AttemptsIn(log) == {k \in 1..Len(log) : log[k].e = "attempt"}

\* C27: a call of clickWithRetry or fillWithRetry whose maxRetries n is
\* positive (3 when the option is absent or 0) makes at most n attempts,
\* numbered from 1; it returns at its first successful attempt and makes no
\* attempt after it; after a failed attempt that is followed by anything, a
\* wait of retryDelay follows and then the next attempt, and no wait follows
\* attempt n; once n attempts have failed it has thrown the error of attempt n.
C27_RetryDiscipline ==
    (bp.fn \in RetryMethods /\ bp.maxRetries > 0) =>
        LET n == bp.maxRetries
            log == bp.log
            made == Cardinality(AttemptsIn(log))
        IN  /\ n = IF bp.maxRetriesOption \in {Undefined, JsNumber(0)}
                   THEN 3 ELSE bp.maxRetriesOption.d
            /\ made <= n
            /\ \A k \in AttemptsIn(log) :
                   /\ log[k].n = Cardinality({j \in AttemptsIn(log) : j <= k})
                   /\ log[k].outcome = "ok" => (k = Len(log) /\ bp.pc = "returned")
            /\ bp.pc = "returned" => (made >= 1 /\ log[Len(log)].outcome = "ok")
            /\ \A k \in 1..(Len(log) - 1) :
                   /\ log[k].e = "attempt" =>
                          (log[k + 1].e = "wait" /\ log[k + 1].n = bp.retryDelay)
                   /\ log[k].e = "wait" => log[k + 1].e = "attempt"
            /\ made = n => (log[Len(log)].e = "attempt" /\ bp.pc \in {"returned", "thrown"})
            /\ (made = n /\ log[Len(log)].outcome = "failed") =>
                   /\ bp.pc = "thrown"
                   /\ bp.thrown.t = "Error"
                   /\ bp.thrown.from = "attempt"
                   /\ bp.thrown.n = n

\* three failed attempts under the defaults, with two waits of 1000 ms
C27_Witness ==
    /\ bp.fn = "fillWithRetry"
    /\ bp.maxRetriesOption = Undefined
    /\ bp.retryDelayOption = Undefined
    /\ bp.pc = "thrown"
    /\ Len(bp.log) = 5
    /\ bp.log[2] = [e |-> "wait", n |-> 1000, outcome |-> "ok"]
    /\ bp.log[4] = [e |-> "wait", n |-> 1000, outcome |-> "ok"]
    /\ bp.thrown = [t |-> "Error", from |-> "attempt", n |-> 3,
                    message |-> "action: Timeout exceeded"]

\* C28: for every maxRetries, 0 and negative values included, a call of
\* clickWithRetry or fillWithRetry that has ended has made at least one
\* attempt, and what it has thrown is the Error of one of its attempts.
C28_AttemptMadeAndErrorThrown ==
    (bp.fn \in RetryMethods /\ bp.pc \in {"returned", "thrown"}) =>
        /\ AttemptsIn(bp.log) # {}
        /\ bp.pc = "thrown" =>
               /\ bp.thrown.t = "Error"
               /\ bp.thrown.from = "attempt"
               /\ \E k \in AttemptsIn(bp.log) :
                      bp.log[k].n = bp.thrown.n /\ bp.log[k].outcome = "failed"

\* C29: whenever waitForElementToBeStable has returned, its two most recent
\* position comparisons were both within maxPositionDifference on both axes;
\* and after a comparison out of tolerance the stable count is zero.
C29_ReturnsOnlyWhenStable ==
    bp.fn = "waitForElementToBeStable" =>
        /\ bp.pc = "returned" =>
               /\ Len(bp.comparisons) = 2
               /\ \A k \in 1..2 :
                      /\ bp.comparisons[k].xDiff <= bp.maxPositionDifference
                      /\ bp.comparisons[k].yDiff <= bp.maxPositionDifference
        /\ (/\ bp.comparisons # <<>>
            /\ \/ bp.comparisons[Len(bp.comparisons)].xDiff > bp.maxPositionDifference
               \/ bp.comparisons[Len(bp.comparisons)].yDiff > bp.maxPositionDifference)
               => bp.stableCount = 0

\* C30: a call of startOllama never throws; when the server was already
\* running at its first check it has returned true without a launch; otherwise
\* it launches once and checks at most 5 times, it returns true at the first
\* check that finds the server running and false after the fifth, and false
\* when the launch raised an error.
C30_StartOllama ==
    /\ ollama.pc \in {"idle", "firstCheck", "exec", "sleep", "poll", "returned"}
    /\ ollama.launches <= 1
    /\ Len(ollama.polls) <= 5
    /\ (ollama.serverAtCheck \in {"upNoModels", "upWithModels"}) =>
           /\ ollama.pc = "returned"
           /\ ollama.result = JsBoolean(TRUE)
           /\ ollama.launches = 0
    /\ (ollama.serverAtCheck = "down") =>
           /\ ollama.launches = 1
           /\ \A k \in 1..Len(ollama.polls) :
                  ollama.polls[k] # "down" =>
                      (/\ k = Len(ollama.polls)
                       /\ ollama.pc = "returned"
                       /\ ollama.result = JsBoolean(TRUE))
           /\ (ollama.pc = "returned" /\ ollama.result = JsBoolean(FALSE)) =>
                  (ollama.execOutcome = "rejected" \/ Len(ollama.polls) = 5)

====
